---- MODULE Spec2Model ----
(***************************************************************************)
(* Dialogue-state and intent-resolution core of the customer-support chat  *)
(* API (src/chat-api/chat_api.py).                                         *)
(*                                                                         *)
(* Text representation.  TLA+ strings are atomic, so a text is the         *)
(* sequence of its whitespace-separated words (what str.split() returns);  *)
(* the text itself is those words joined by single blanks.  Words are      *)
(* written in ASCII: s-cedilla, dotless i, soft g, u/o-umlaut and          *)
(* c-cedilla lose their diacritic, the check mark is "[OK]", the cross     *)
(* mark "[X]", the warning sign "[!]".  Capital dotted I is "I~"; Python's *)
(* str.lower() turns it into "i" followed by the combining dot U+0307,     *)
(* written "i~", so "iptal" is NOT a substring of the lowered "I~ptal".    *)
(* What Python computes on the characters of a word (lower(), the regular  *)
(* expressions, the substring test `in`) is tabulated per word of the      *)
(* vocabulary: Lower, Sub, Pre, Suf, OrderMatch, MarkerRest, IsDigits.     *)
(***************************************************************************)
EXTENDS Integers, Sequences, FiniteSets, TLC

VARIABLES chat_sessions, chat_messages, chat_actions, order_api_log, handled, last,
          classified, requests

vars == <<chat_sessions, chat_messages, chat_actions, order_api_log, handled, last,
          classified, requests>>

-----------------------------------------------------------------------------
(* Bounds *)

\* requests handled in one behaviour
MaxRequests == 2

-----------------------------------------------------------------------------
(* Inputs: user messages, generated answers, collaborator outcomes *)
MsgBareNumber == <<"12345">>
MsgReasonOnly == <<"fikrim", "degisti">>
MsgOrderAndReason == <<"ORD-8841", "hasarli">>
MsgGreeting == <<"merhaba">>
MsgNumericReason == <<"sebep:", "12345">>
MsgCancelIntent == <<"siparisimi", "iptal", "etmek", "istiyorum">>
MsgOtherOrder == <<"ORD-7777", "bozuk">>
GenShipping == <<"siparisiniz", "kargoya", "verildi">>
GenAskReason == <<"iptal", "nedeni", "gerekli">>
GenCancelled == <<"siparisiniz", "basariyla", "iptal", "edildi.">>
ClarifyHead == <<"I~ptal", "islemi", "icin">>
ClarifyTail == <<"bilgisini", "paylasir", "misiniz?">>
AskOrder == <<"siparis", "numarasi">>
AskReason == <<"sebep">>
AskJoin == <<"ve">>
OfferSentence == <<"Eger", "isterseniz", "buradan", "siparis", "numaranizi", "ve", "iptal", "nedeninizi", "paylasirsaniz,", "ben", "de", "iptal", "isleminizi", "gerceklestirebilirim.">>
SuccessHead == <<"[OK]", "Siparis">>
SuccessMid == <<"basariyla", "iptal", "edildi.", "Sebep:">>
FailHead == <<"[X]", "Siparis", "iptal", "edilemedi.", "Status:">>
FailMid == <<"Response:">>
ErrorHead == <<"[X]", "Siparis", "iptalinde", "hata:">>
NoDataMsg == <<"[!]", "Uzgunum,", "su", "anda", "sistem", "bilgi", "bankasinda", "veri", "bulunmuyor.", "Lutfen", "daha", "sonra", "tekrar", "deneyin", "veya", "musteri", "hizmetleri", "ile", "iletisime", "gecin.">>
DbErrorMsg == <<"[!]", "Uzgunum,", "su", "anda", "sistem", "veritabanina", "erisimde", "sorun", "yasaniyor.", "Lutfen", "daha", "sonra", "tekrar", "deneyin", "veya", "musteri", "hizmetleri", "ile", "iletisime", "gecin.">>
BodyText == <<"Internal", "Server", "Error">>
ExcText == <<"Read", "timed", "out">>

-----------------------------------------------------------------------------
(* Per-word tables of Python string semantics *)

Lower(w) ==
    CASE w = "ORD-8841" -> "ord-8841"
      [] w = "I~ptal" -> "i~ptal"
      [] w = "Eger" -> "eger"
      [] w = "Siparis" -> "siparis"
      [] w = "Sebep:" -> "sebep:"
      [] w = "Status:" -> "status:"
      [] w = "Response:" -> "response:"
      [] w = "Uzgunum," -> "uzgunum,"
      [] w = "Lutfen" -> "lutfen"
      [] w = "Internal" -> "internal"
      [] w = "Server" -> "server"
      [] w = "Error" -> "error"
      [] w = "Read" -> "read"
      [] w = "ORD-7777" -> "ord-7777"
      [] w = "SEBEP:" -> "sebep:"
      [] w = "ORD8841" -> "ord8841"
      [] OTHER -> w

Sub(w) ==
    CASE w = "fikrim" -> {"fikrim"}
      [] w = "degisti" -> {"degisti"}
      [] w = "hasarli" -> {"hasarli"}
      [] w = "merhaba" -> {"merhaba"}
      [] w = "sebep:" -> {"sebep"}
      [] w = "siparisimi" -> {"siparis"}
      [] w = "iptal" -> {"iptal"}
      [] w = "siparisiniz" -> {"siparis"}
      [] w = "nedeni" -> {"nedeni"}
      [] w = "gerekli" -> {"gerek"}
      [] w = "islemi" -> {"islemi"}
      [] w = "siparis" -> {"siparis"}
      [] w = "numarasi" -> {"numara"}
      [] w = "sebep" -> {"sebep"}
      [] w = "numaranizi" -> {"numaraniz", "numara"}
      [] w = "nedeninizi" -> {"nedenini", "nedeni"}
      [] w = "isleminizi" -> {"islemi"}
      [] w = "[OK]" -> {"[OK]"}
      [] w = "basariyla" -> {"basariyla"}
      [] w = "edildi." -> {"edildi"}
      [] w = "iptalinde" -> {"iptal"}
      [] w = "hizmetleri" -> {"hi"}
      [] w = "bozuk" -> {"bozuk"}
      [] w = "selam" -> {"selam"}
      [] w = "iade" -> {"iade"}
      [] w = "numara" -> {"numara"}
      [] w = "hi" -> {"hi"}
      [] w = "this" -> {"hi"}
      [] w = "sebep-hasarli" -> {"sebep", "hasarli"}
      [] w = "order" -> {"order"}
      [] w = "iyi" -> {"iyi"}
      [] w = "gunler" -> {"gunler"}
      [] w = "nedenini" -> {"nedenini", "nedeni"}
      [] w = "numarasini" -> {"numarasini", "numara"}
      [] w = "numaraniz" -> {"numaraniz", "numara"}
      [] w = "hello" -> {"hello"}
      [] w = "gunaydin" -> {"gunaydin"}
      [] OTHER -> {}

Pre(w) ==
    CASE w = "fikrim" -> {"fikrim"}
      [] w = "degisti" -> {"degisti"}
      [] w = "hasarli" -> {"hasarli"}
      [] w = "merhaba" -> {"merhaba"}
      [] w = "sebep:" -> {"sebep"}
      [] w = "siparisimi" -> {"siparis"}
      [] w = "iptal" -> {"iptal"}
      [] w = "siparisiniz" -> {"siparis"}
      [] w = "nedeni" -> {"nedeni"}
      [] w = "gerekli" -> {"gerek"}
      [] w = "islemi" -> {"islemi"}
      [] w = "siparis" -> {"siparis"}
      [] w = "numarasi" -> {"numara"}
      [] w = "sebep" -> {"sebep"}
      [] w = "numaranizi" -> {"numaraniz", "numara"}
      [] w = "nedeninizi" -> {"nedenini", "nedeni"}
      [] w = "isleminizi" -> {"islemi"}
      [] w = "[OK]" -> {"[OK]"}
      [] w = "basariyla" -> {"basariyla"}
      [] w = "edildi." -> {"edildi"}
      [] w = "iptalinde" -> {"iptal"}
      [] w = "hizmetleri" -> {"hi"}
      [] w = "bozuk" -> {"bozuk"}
      [] w = "selam" -> {"selam"}
      [] w = "iade" -> {"iade"}
      [] w = "numara" -> {"numara"}
      [] w = "hi" -> {"hi"}
      [] w = "sebep-hasarli" -> {"sebep"}
      [] w = "order" -> {"order"}
      [] w = "iyi" -> {"iyi"}
      [] w = "gunler" -> {"gunler"}
      [] w = "nedenini" -> {"nedenini", "nedeni"}
      [] w = "numarasini" -> {"numarasini", "numara"}
      [] w = "numaraniz" -> {"numaraniz", "numara"}
      [] w = "hello" -> {"hello"}
      [] w = "gunaydin" -> {"gunaydin"}
      [] OTHER -> {}

Suf(w) ==
    CASE w = "fikrim" -> {"fikrim"}
      [] w = "degisti" -> {"degisti"}
      [] w = "hasarli" -> {"hasarli"}
      [] w = "merhaba" -> {"merhaba"}
      [] w = "iptal" -> {"iptal"}
      [] w = "nedeni" -> {"nedeni"}
      [] w = "islemi" -> {"islemi"}
      [] w = "siparis" -> {"siparis"}
      [] w = "sebep" -> {"sebep"}
      [] w = "[OK]" -> {"[OK]"}
      [] w = "basariyla" -> {"basariyla"}
      [] w = "bozuk" -> {"bozuk"}
      [] w = "selam" -> {"selam"}
      [] w = "iade" -> {"iade"}
      [] w = "numara" -> {"numara"}
      [] w = "hi" -> {"hi"}
      [] w = "sebep-hasarli" -> {"hasarli"}
      [] w = "order" -> {"order"}
      [] w = "iyi" -> {"iyi"}
      [] w = "gunler" -> {"gunler"}
      [] w = "nedenini" -> {"nedenini"}
      [] w = "numarasini" -> {"numarasini"}
      [] w = "numaraniz" -> {"numaraniz"}
      [] w = "hello" -> {"hello"}
      [] w = "gunaydin" -> {"gunaydin"}
      [] OTHER -> {}

OrderMatch(w) ==
    CASE w = "12345" -> <<"12345">>
      [] w = "ORD-8841" -> <<"ORD-8841">>
      [] w = "500," -> <<"500">>
      [] w = "200," -> <<"200">>
      [] w = "ORD-7777" -> <<"ORD-7777">>
      [] w = "204" -> <<"204">>
      [] w = "ORD8841" -> <<"ORD8841">>
      [] w = "1234567," -> <<"1234567">>
      [] OTHER -> <<>>

MarkerRest(w) ==
    CASE w = "sebep-hasarli" -> <<"hasarli">>
      [] OTHER -> <<>>

IsDigits(w) == w \in {"12345", "204", "77"}

SuccessMarkers == <<<<"basariyla", "iptal", "edildi">>, <<"[OK]">>>>

OrderPhrases == <<<<"siparis", "numaraniz">>, <<"siparis", "numarasini">>, <<"siparis">>>>

ReasonPhrases == <<<<"iptal", "nedenini">>, <<"sebep">>, <<"nedeni">>>>

IptalPhrases == <<<<"iptal", "islemi">>, <<"islemi">>, <<"iptal">>>>

ExcludedWords == <<<<"siparis">>, <<"numara">>, <<"order">>, <<"number">>>>

GreetingWords == <<<<"iptal">>, <<"merhaba">>, <<"selam">>, <<"hello">>, <<"hi">>, <<"iyi", "gunler">>, <<"gunaydin">>>>

IntentWords == <<<<"iptal">>, <<"iade">>>>

ReasonKeywords == <<<<"hasarli">>, <<"bozuk">>, <<"iade">>, <<"yanlis">>, <<"defolu">>, <<"begenmedim">>, <<"uygun", "degil">>, <<"fikrim", "degisti">>, <<"fikir", "degistirdim">>, <<"istemiyorum">>, <<"artik", "gerek", "yok">>, <<"kalitesiz">>, <<"kotu">>, <<"iyi", "degil">>>>

-----------------------------------------------------------------------------
(* Text helpers: Optional[str], str.lower(), the substring test *)

None == <<>>

Some(v) == <<v>>

\* Python truthiness of an Optional[str]: None and "" are both false
Truthy(o) == o # None /\ o[1] # <<>>

MinOf(S) == CHOOSE x \in S : \A y \in S : x <= y

LowerText(t) == IF t = <<>> THEN <<>> ELSE [i \in 1..Len(t) |-> Lower(t[i])]

\* the phrase n (a sequence of words) occurs in the lowered text t, starting
\* inside word i
MatchAt(t, i, n) ==
    IF Len(n) = 1
    THEN n[1] \in Sub(t[i])
    ELSE /\ i + Len(n) - 1 <= Len(t)
         /\ n[1] \in Suf(t[i])
         /\ n[Len(n)] \in Pre(t[i + Len(n) - 1])
         /\ \A k \in 2..(Len(n) - 1) : t[i + k - 1] = n[k]

\* Python: n in t
Contains(t, n) == \E i \in 1..Len(t) : MatchAt(t, i, n)

\* Python: any(n in t for n in ns)
ContainsAny(t, ns) == \E k \in 1..Len(ns) : Contains(t, ns[k])

\* Numeric that takes no text for a number
NeverNumeric(t) == FALSE

\* Python: re.match(r'^\d+$', t.strip())
Numeric(t) == Len(t) = 1 /\ IsDigits(t[1])

\* Python: sep.join(parts)
RECURSIVE Join(_, _)
Join(parts, sep) ==
    IF parts = <<>> THEN <<>>
    ELSE IF Len(parts) = 1 THEN parts[1]
    ELSE parts[1] \o sep \o Join(Tail(parts), sep)

-----------------------------------------------------------------------------
(* Entity extractor *)

ShortMessageTokens == 3

\* a line break inside a message, a word of its own: the "." of the regular
\* expressions does not match it, str.strip() and str.split() drop it
LineBreak == "\\n"

\* Python: t.strip()
RECURSIVE Strip(_)
Strip(t) ==
    IF t = <<>> THEN <<>>
    ELSE IF Head(t) = LineBreak THEN Strip(Tail(t))
    ELSE IF t[Len(t)] = LineBreak THEN Strip(SubSeq(t, 1, Len(t) - 1))
    ELSE t

\* Python: t.split()
Split(t) == SelectSeq(t, LAMBDA w : w # LineBreak)

\* the words of t before its first line break
ToEndOfLine(t) ==
    LET breaks == {i \in 1..Len(t) : t[i] = LineBreak}
    IN  IF breaks = {} THEN t ELSE SubSeq(t, 1, MinOf(breaks) - 1)

\* group 1 of "sebep[:\-]?\s*(.*)": rest is what the marker's word has after
\* the marker, after the words that follow; \s* passes line breaks, (.*)
\* stops at one
MarkerGroup(rest, after) ==
    IF rest # <<>>
    THEN rest \o ToEndOfLine(after)
    ELSE ToEndOfLine(Strip(after))

ExtractOrder(message) ==
    LET hits == {i \in 1..Len(message) : OrderMatch(message[i]) # <<>>}
    IN  IF hits = {} THEN None ELSE Some(OrderMatch(message[MinOf(hits)]))

ExtractReason(message) ==
    LET low == LowerText(message)
        marks == {i \in 1..Len(message) : "sebep" \in Sub(low[i])}
        kwAt(i) == {k \in 1..Len(ReasonKeywords) : MatchAt(low, i, ReasonKeywords[k])}
        kwPos == {i \in 1..Len(message) : kwAt(i) # {}}
    IN  IF marks # {}
        THEN Some(MarkerGroup(MarkerRest(message[MinOf(marks)]),
                              SubSeq(message, MinOf(marks) + 1, Len(message))))
        ELSE IF kwPos # {}
        THEN Some(ReasonKeywords[MinOf(kwAt(MinOf(kwPos)))])
        ELSE IF /\ Len(Split(message)) <= ShortMessageTokens
                /\ ~Numeric(Strip(message))
                /\ ~ContainsAny(low, ExcludedWords)
        THEN Some(Strip(message))
        ELSE None

extract_order_and_reason(message) ==
    [order_number |-> ExtractOrder(message), reason |-> ExtractReason(message)]

-----------------------------------------------------------------------------
(* History store adapter: the tables chat_sessions, chat_messages,         *)
(* chat_actions.  A table is the sequence of its rows in insertion order,  *)
(* which is the order of created_at.                                       *)

ensure_session(sessions, session_id) == sessions \cup {session_id}

save_message(messages, session_id, role, content) ==
    Append(messages, [session_id |-> session_id, role |-> role, content |-> content])


\* save_action that records successful cancellations only
save_action_success_only(actions, session_id, action_name, args, result) ==
    IF result[1] = "[OK]"
    THEN Append(actions, [session_id |-> session_id, action_name |-> action_name,
                          args |-> args, result |-> result])
    ELSE actions

save_action(actions, session_id, action_name, args, result) ==
    Append(actions, [session_id |-> session_id, action_name |-> action_name,
                     args |-> args, result |-> result])

get_session_history(messages, session_id) ==
    SelectSeq(messages, LAMBDA r : r.session_id = session_id)

\* RowsOf without the WHERE session_id = %s
RowsOfAnySession(messages, session_id, role) ==
    SelectSeq(messages, LAMBDA r : r.role = role)

\* SELECT content ... WHERE session_id = %s AND role = %s ORDER BY created_at ASC
RowsOf(messages, session_id, role) ==
    SelectSeq(messages, LAMBDA r : r.session_id = session_id /\ r.role = role)

-----------------------------------------------------------------------------
(* Dialogue-state classifier *)



\* AskedForDetails with the test of the specification text: an order phrase,
\* and a reason phrase or a process phrase
AskedForDetailsOrderRequired(content) ==
    LET txt == LowerText(content)
        has_order == ContainsAny(txt, OrderPhrases)
        has_reason == ContainsAny(txt, ReasonPhrases)
        has_iptal == ContainsAny(txt, IptalPhrases)
    IN  IF ContainsAny(txt, SuccessMarkers)
        THEN FALSE
        ELSE has_order /\ (has_reason \/ has_iptal)

\* AskedForDetails asking for an order phrase and a reason phrase only
AskedForDetailsBothPhrases(content) ==
    LET txt == LowerText(content)
        has_order == ContainsAny(txt, OrderPhrases)
        has_reason == ContainsAny(txt, ReasonPhrases)
    IN  IF ContainsAny(txt, SuccessMarkers)
        THEN FALSE
        ELSE has_order /\ has_reason

\* AskedForDetails without the early return on a success marker
AskedForDetailsNoSuccessCheck(content) ==
    LET txt == LowerText(content)
        has_order == ContainsAny(txt, OrderPhrases)
        has_reason == ContainsAny(txt, ReasonPhrases)
        has_iptal == ContainsAny(txt, IptalPhrases)
    IN  (has_order \/ has_reason) /\ has_iptal

\* the decision on the text of the latest assistant turn
AskedForDetails(content) ==
    LET txt == LowerText(content)
        has_order == ContainsAny(txt, OrderPhrases)
        has_reason == ContainsAny(txt, ReasonPhrases)
        has_iptal == ContainsAny(txt, IptalPhrases)
    IN  IF ContainsAny(txt, SuccessMarkers)
        THEN FALSE
        ELSE (has_order \/ has_reason) /\ has_iptal



\* the classifier reading the oldest assistant turn (ORDER BY created_at ASC)
assistant_first_asked_for_details(messages, session_id) ==
    LET rows == RowsOf(messages, session_id, "assistant")
    IN  IF rows = <<>> THEN FALSE ELSE AskedForDetails(rows[1].content)

\* the classifier answering true for a session without an assistant turn
assistant_asked_or_none_yet(messages, session_id) ==
    LET rows == RowsOf(messages, session_id, "assistant")
    IN  IF rows = <<>> THEN TRUE ELSE AskedForDetails(rows[Len(rows)].content)

assistant_recently_asked_for_details(messages, session_id) ==
    LET rows == RowsOf(messages, session_id, "assistant")
    IN  IF rows = <<>> THEN FALSE ELSE AskedForDetails(rows[Len(rows)].content)

-----------------------------------------------------------------------------
(* Context aggregator *)

HistoryLimit == 10

\* RecentUserRows without the LIMIT
AllUserRows(messages, session_id) ==
    LET rows == RowsOf(messages, session_id, "user")
    IN  IF rows = <<>> THEN <<>>
        ELSE [k \in 1..Len(rows) |-> rows[Len(rows) + 1 - k].content]

\* ... WHERE role = 'user' ORDER BY created_at DESC LIMIT 10: newest first
RecentUserRows(messages, session_id) ==
    LET rows == RowsOf(messages, session_id, "user")
        n == IF Len(rows) < HistoryLimit THEN Len(rows) ELSE HistoryLimit
    IN  IF n = 0 THEN <<>> ELSE [k \in 1..n |-> rows[Len(rows) + 1 - k].content]

\* a reason found in history is accepted
ValidContextReason(msg_reason) ==
    /\ Truthy(msg_reason)
    /\ ~Numeric(msg_reason[1])
    /\ ~ContainsAny(LowerText(msg_reason[1]), GreetingWords)

RECURSIVE ScanContext(_, _, _, _)
ScanContext(rows, k, order_number, reason) ==
    IF k > Len(rows)
    THEN [order_number |-> order_number, reason |-> reason]
    ELSE LET msg == extract_order_and_reason(rows[k])
             o2 == IF Truthy(msg.order_number) /\ ~Truthy(order_number)
                   THEN msg.order_number ELSE order_number
             r2 == IF ~Truthy(reason) /\ ValidContextReason(msg.reason)
                   THEN msg.reason ELSE reason
         IN  IF Truthy(o2) /\ Truthy(r2)
             THEN [order_number |-> o2, reason |-> r2]
             ELSE ScanContext(rows, k + 1, o2, r2)

\* get_session_context_for_order that reads only the user turns written
\* after the latest successful cancellation of the session
get_session_context_since_success(messages, session_id) ==
    LET done == {i \in DOMAIN messages :
                    /\ messages[i].session_id = session_id
                    /\ messages[i].role = "assistant"
                    /\ ContainsAny(LowerText(messages[i].content), SuccessMarkers)}
        from == IF done = {} THEN 1
                ELSE (CHOOSE i \in done : \A j \in done : j <= i) + 1
    IN  ScanContext(RecentUserRows(SubSeq(messages, from, Len(messages)), session_id),
                    1, None, None)

get_session_context_for_order(messages, session_id) ==
    ScanContext(RecentUserRows(messages, session_id), 1, None, None)

-----------------------------------------------------------------------------
(* Action invoker *)

NoContent == 204

\* what the cancellation service can do with a call
ApiOutcomes ==
    { [raised |-> FALSE, status_code |-> NoContent, text |-> <<>>, error |-> <<>>],
      [raised |-> FALSE, status_code |-> 500, text |-> BodyText, error |-> <<>>],
      [raised |-> FALSE, status_code |-> 200, text |-> <<>>, error |-> <<>>],
      [raised |-> TRUE, status_code |-> 0, text |-> <<>>, error |-> ExcText] }

\* f"{resp.status_code},"
StatusWord(status_code) ==
    CASE status_code = NoContent -> "204,"
      [] status_code = 200 -> "200,"
      [] OTHER -> "500,"

\* call_order_api that takes every status below 300 for a success
call_order_api_any_2xx(order_number, reason, resp) ==
    LET request_data == [order_number |-> order_number, reason |-> reason]
        info(status, data, error) ==
            [tool_name |-> "cancel_order", endpoint |-> "ORDER_API_URL/cancel",
             method |-> "POST", request_data |-> request_data,
             response_status |-> status, response_data |-> data, error |-> error]
    IN  IF resp.raised
        THEN [result |-> ErrorHead \o resp.error,
              tool_info |-> info(None, None, Some(resp.error))]
        ELSE IF resp.status_code < 300
        THEN [result |-> SuccessHead \o order_number \o SuccessMid \o reason,
              tool_info |-> info(Some(resp.status_code),
                                 Some(<<"Order", "cancelled", "successfully">>), None)]
        ELSE [result |-> FailHead \o <<StatusWord(resp.status_code)>> \o FailMid \o resp.text,
              tool_info |-> info(Some(resp.status_code), Some(resp.text), None)]

call_order_api(order_number, reason, resp) ==
    LET request_data == [order_number |-> order_number, reason |-> reason]
        info(status, data, error) ==
            [tool_name |-> "cancel_order", endpoint |-> "ORDER_API_URL/cancel",
             method |-> "POST", request_data |-> request_data,
             response_status |-> status, response_data |-> data, error |-> error]
    IN  IF resp.raised
        THEN [result |-> ErrorHead \o resp.error,
              tool_info |-> info(None, None, Some(resp.error))]
        ELSE IF resp.status_code = NoContent
        THEN [result |-> SuccessHead \o order_number \o SuccessMid \o reason,
              tool_info |-> info(Some(resp.status_code),
                                 Some(<<"Order", "cancelled", "successfully">>), None)]
        ELSE [result |-> FailHead \o <<StatusWord(resp.status_code)>> \o FailMid \o resp.text,
              tool_info |-> info(Some(resp.status_code), Some(resp.text), None)]

-----------------------------------------------------------------------------
(* Retrieval-augmented responder: collaborator outcomes *)

\* vectorstore.similarity_search: raises, or returns passages
SearchOutcomes ==
    { [raised |-> TRUE, results |-> <<>>],
      [raised |-> FALSE, results |-> <<>>],
      [raised |-> FALSE,
       results |-> <<[page_content |-> <<>>, source |-> "faq.txt - chunk 0"]>>],
      [raised |-> FALSE,
       results |-> <<[page_content |-> <<"iade", "kosullari">>,
                      source |-> "faq.txt - chunk 0"]>>] }

\* chat_model.invoke: raises, or returns a text
GenOutcomes ==
    { [raised |-> TRUE, content |-> <<>>],
      [raised |-> FALSE, content |-> GenShipping],
      [raised |-> FALSE, content |-> GenAskReason] }

\* chat_model.invoke may also return a text that carries a success marker
MarkedGenOutcomes ==
    GenOutcomes \cup {[raised |-> FALSE, content |-> GenCancelled]}

\* "\n".join([r.page_content for r in results]).strip()
DocsText(results) ==
    Join([k \in DOMAIN results |-> results[k].page_content], <<>>)

Sources(results) == [k \in DOMAIN results |-> results[k].source]

\* the "\n\n" between the generated answer and the offer
Newlines == <<"\\n\\n">>

-----------------------------------------------------------------------------
(* Intent resolver *)

\* order_number after the backfill from the session context
BackfilledOrder(cur, ctx) ==
    IF ~Truthy(cur.order_number) \/ ~Truthy(cur.reason)
    THEN IF ~Truthy(cur.order_number) THEN ctx.order_number ELSE cur.order_number
    ELSE cur.order_number


\* FinalOrder that never falls back to the order number found in history
FinalOrderCurrentOnly(current_order, order_number) == current_order

FinalOrder(current_order, order_number) ==
    IF Truthy(current_order) THEN current_order ELSE order_number


\* ExecuteBranch without the test that the reason is not a number
ExecuteBranchAnyReason(awaiting, final_order, current_reason) ==
    /\ awaiting
    /\ Truthy(final_order)
    /\ Truthy(current_reason)

ExecuteBranch(awaiting, final_order, current_reason) ==
    /\ awaiting
    /\ Truthy(final_order)
    /\ Truthy(current_reason)
    /\ ~Numeric(current_reason[1])


\* Missing that counts a reason that is a number as missing
MissingOrNumeric(final_order, current_reason) ==
    (IF ~Truthy(final_order) THEN <<AskOrder>> ELSE <<>>)
    \o (IF ~Truthy(current_reason) \/ Numeric(current_reason[1])
        THEN <<AskReason>> ELSE <<>>)

\* Missing with the two names swapped
MissingSwapped(final_order, current_reason) ==
    (IF ~Truthy(final_order) THEN <<AskReason>> ELSE <<>>)
    \o (IF ~Truthy(current_reason) THEN <<AskOrder>> ELSE <<>>)

Missing(final_order, current_reason) ==
    (IF ~Truthy(final_order) THEN <<AskOrder>> ELSE <<>>)
    \o (IF ~Truthy(current_reason) THEN <<AskReason>> ELSE <<>>)

ClarifyAnswer(missing) == ClarifyHead \o Join(missing, AskJoin) \o ClarifyTail

CancelIntent(message) == ContainsAny(LowerText(message), IntentWords)

Response(answer, sources, tool_calls) ==
    [status |-> 200, answer |-> answer, sources |-> sources, tool_calls |-> tool_calls]

\* an exception that leaves chat_endpoint: the framework answers 500
ServerError == [status |-> 500, answer |-> <<>>, sources |-> <<>>, tool_calls |-> <<>>]

\* RagFlow that appends the offer to every answer of the fallback, the
\* unavailability messages included, whatever the message
RagFlowAlwaysOffer(m1, actions, req, search, gen) ==
    LET sid == req.session_id
        out(answer, sources, branch, gens) ==
            [messages |-> save_message(m1, sid, "assistant",
                                       answer \o Newlines \o OfferSentence),
             actions |-> actions, api_requests |-> <<>>,
             response |-> Response(answer \o Newlines \o OfferSentence, sources, <<>>),
             branch |-> branch, search_calls |-> 1, gen_calls |-> gens]
    IN  IF search.raised
        THEN out(DbErrorMsg, <<>>, "db_error", 0)
        ELSE IF DocsText(search.results) = <<>>
        THEN out(NoDataMsg, <<>>, "no_data", 0)
        ELSE IF gen.raised
        THEN [messages |-> m1, actions |-> actions, api_requests |-> <<>>,
              response |-> ServerError, branch |-> "raised", search_calls |-> 1,
              gen_calls |-> 1]
        ELSE out(gen.content, Sources(search.results), "generated", 1)

\* RagFlow that returns the unavailability message without storing it
RagFlowUnsavedApology(m1, actions, req, search, gen) ==
    LET sid == req.session_id
        out(msgs, resp, branch, gens) ==
            [messages |-> msgs, actions |-> actions, api_requests |-> <<>>,
             response |-> resp, branch |-> branch, search_calls |-> 1,
             gen_calls |-> gens]
    IN  IF search.raised
        THEN out(m1, Response(DbErrorMsg, <<>>, <<>>), "db_error", 0)
        ELSE IF DocsText(search.results) = <<>>
        THEN out(m1, Response(NoDataMsg, <<>>, <<>>), "no_data", 0)
        ELSE IF gen.raised
        THEN out(m1, ServerError, "raised", 1)
        ELSE LET answer == gen.content
                           \o (IF CancelIntent(req.message)
                               THEN Newlines \o OfferSentence ELSE <<>>)
             IN  out(save_message(m1, sid, "assistant", answer),
                     Response(answer, Sources(search.results), <<>>), "generated", 1)

\* The retrieval fallback of chat_endpoint; m1 is chat_messages with the user turn
RagFlow(m1, actions, req, search, gen) ==
    LET sid == req.session_id
        out(msgs, resp, branch, gens) ==
            [messages |-> msgs, actions |-> actions, api_requests |-> <<>>,
             response |-> resp, branch |-> branch, search_calls |-> 1,
             gen_calls |-> gens]
    IN  IF search.raised
        THEN out(save_message(m1, sid, "assistant", DbErrorMsg),
                 Response(DbErrorMsg, <<>>, <<>>), "db_error", 0)
        ELSE IF DocsText(search.results) = <<>>
        THEN out(save_message(m1, sid, "assistant", NoDataMsg),
                 Response(NoDataMsg, <<>>, <<>>), "no_data", 0)
        ELSE IF gen.raised
        THEN out(m1, ServerError, "raised", 1)
        ELSE LET answer == gen.content
                           \o (IF CancelIntent(req.message)
                               THEN Newlines \o OfferSentence ELSE <<>>)
             IN  out(save_message(m1, sid, "assistant", answer),
                     Response(answer, Sources(search.results), <<>>), "generated", 1)

\* reason after the backfill from the session context
BackfilledReason(cur, ctx) ==
    IF ~Truthy(cur.order_number) \/ ~Truthy(cur.reason)
    THEN IF ~Truthy(cur.reason) THEN ctx.reason ELSE cur.reason
    ELSE cur.reason

\* the two branch tests of chat_endpoint, on the store m1 that holds the user
\* turn: the execute test, then the clarify test (the classifier is read
\* from the store for each)
BranchOn(m1, sid, current_order, current_reason, order_number) ==
    LET final_order == FinalOrder(current_order, order_number)
        missing == Missing(final_order, current_reason)
    IN  [m1 |-> m1, final_order |-> final_order, current_reason |-> current_reason,
         execute |-> ExecuteBranch(assistant_recently_asked_for_details(m1, sid),
                                   final_order, current_reason),
         clarify |-> assistant_recently_asked_for_details(m1, sid) /\ missing # <<>>,
         missing |-> missing]


\* Branch with the backfilled reason in place of the current message's reason
BranchStaleReason(m1, sid, current, order_number, reason) ==
    BranchOn(m1, sid, current.order_number, reason, order_number)

Branch(m1, sid, current, order_number, reason) ==
    BranchOn(m1, sid, current.order_number, current.reason, order_number)

\* Resolve that does not store the user turn
ResolveUnsaved(messages, req) ==
    LET sid == req.session_id
        cur == extract_order_and_reason(req.message)
        ctx == get_session_context_for_order(messages, sid)
    IN  Branch(messages, sid, extract_order_and_reason(req.message),
               BackfilledOrder(cur, ctx), BackfilledReason(cur, ctx))

\* chat_endpoint up to its branch decision: the user turn is stored, the
\* entities are extracted and backfilled, the classifier is read
Resolve(messages, req) ==
    LET sid == req.session_id
        m1 == save_message(messages, sid, "user", req.message)
        cur == extract_order_and_reason(req.message)
        ctx == get_session_context_for_order(m1, sid)
    IN  Branch(m1, sid, extract_order_and_reason(req.message),
               BackfilledOrder(cur, ctx), BackfilledReason(cur, ctx))

\* chat_endpoint from its branch decision d on
Respond(d, actions, req, api, search, gen) ==
    LET sid == req.session_id
    IN  IF d.execute
        THEN LET r == call_order_api(d.final_order[1], d.current_reason[1], api)
             IN  [messages |-> save_message(d.m1, sid, "assistant", r.result),
                  actions |-> save_action(actions, sid, "cancel_order",
                                 [order_number |-> d.final_order[1],
                                  reason |-> d.current_reason[1]], r.result),
                  api_requests |-> <<r.tool_info.request_data>>,
                  response |-> Response(r.result, <<>>, <<r.tool_info>>),
                  branch |-> "execute", search_calls |-> 0, gen_calls |-> 0]
        ELSE IF d.clarify
        THEN [messages |-> save_message(d.m1, sid, "assistant", ClarifyAnswer(d.missing)),
              actions |-> actions, api_requests |-> <<>>,
              response |-> Response(ClarifyAnswer(d.missing), <<>>, <<>>),
              branch |-> "clarify", search_calls |-> 0, gen_calls |-> 0]
        ELSE RagFlow(d.m1, actions, req, search, gen)

\* POST /chat, the whole handler
chat_endpoint(messages, actions, req, api, search, gen) ==
    Respond(Resolve(messages, req), actions, req, api, search, gen)

-----------------------------------------------------------------------------
(* The state machine: requests handled one at a time *)

Sessions == {"s1", "s2"}

UserMessages ==
    { MsgBareNumber, MsgReasonOnly, MsgOrderAndReason, MsgGreeting,
      MsgNumericReason, MsgCancelIntent }

\* a conversation of another session that is already in the store
OtherSession ==
    << [session_id |-> "s2", role |-> "user", content |-> MsgCancelIntent],
       [session_id |-> "s2", role |-> "assistant",
        content |-> GenShipping \o Newlines \o OfferSentence] >>

\* session s1 after a first exchange that ended with the proactive offer
OfferedSession ==
    << [session_id |-> "s1", role |-> "user", content |-> MsgCancelIntent],
       [session_id |-> "s1", role |-> "assistant",
        content |-> GenAskReason \o Newlines \o OfferSentence] >>

\* a collaborator that is not called in a request has no outcome
NotCalled == [raised |-> FALSE]

NoRequest ==
    [session_id |-> "", message |-> <<>>, rows_before |-> 0, actions_before |-> 0,
     branch |-> "none",
     api_calls |-> 0, search_calls |-> 0, gen_calls |-> 0,
     response |-> [status |-> 0],
     env |-> [api |-> NotCalled, search |-> NotCalled, gen |-> NotCalled]]

Init ==
    /\ chat_sessions \in {{"s2"}, {"s1", "s2"}}
    /\ chat_messages = IF "s1" \in chat_sessions
                       THEN OtherSession \o OfferedSession ELSE OtherSession
    /\ chat_actions = <<>>
    /\ order_api_log = <<>>
    /\ handled = 0
    /\ last = NoRequest
    /\ classified = <<>>
    /\ requests = <<>>

\* the outcomes of the collaborators the request of decision d calls: the
\* cancellation service in the execute branch, the retrieval engine in the
\* fallback, the generation engine after a retrieval with usable passages
OutcomesOf(d, gens) ==
    IF d.execute
    THEN {[api |-> a, search |-> NotCalled, gen |-> NotCalled] : a \in ApiOutcomes}
    ELSE IF d.clarify
    THEN {[api |-> NotCalled, search |-> NotCalled, gen |-> NotCalled]}
    ELSE {[api |-> NotCalled, search |-> s, gen |-> NotCalled] :
             s \in {x \in SearchOutcomes : x.raised \/ DocsText(x.results) = <<>>}}
         \cup {[api |-> NotCalled, search |-> s, gen |-> g] :
                 s \in {x \in SearchOutcomes : ~x.raised /\ DocsText(x.results) # <<>>},
                 g \in gens}

ChatUnder(session_id, message, gens) ==
    /\ handled < MaxRequests
    /\ \E d \in {Resolve(chat_messages, [session_id |-> session_id, message |-> message])} :
       \E env \in OutcomesOf(d, gens) :
       \E out \in {Respond(d, chat_actions, [session_id |-> session_id, message |-> message],
                           env.api, env.search, env.gen)} :
          /\ chat_sessions' = ensure_session(chat_sessions, session_id)
          /\ chat_messages' = out.messages
          /\ chat_actions' = out.actions
          /\ order_api_log' = order_api_log \o out.api_requests
          /\ last' = [session_id |-> session_id, message |-> message,
                      rows_before |-> Len(chat_messages),
                      actions_before |-> Len(chat_actions), branch |-> out.branch,
                      api_calls |-> Len(out.api_requests),
                      search_calls |-> out.search_calls,
                      gen_calls |-> out.gen_calls, response |-> out.response,
                      env |-> env]
    /\ handled' = handled + 1
    /\ UNCHANGED <<classified, requests>>

Chat(session_id, message) == ChatUnder(session_id, message, GenOutcomes)

Next == \E message \in UserMessages : Chat("s1", message)

Spec == Init /\ [][Next]_vars

\* the same requests when the generated text may carry a success marker
ChatMarked(session_id, message) ==
    ChatUnder(session_id, message, MarkedGenOutcomes)

NextMarked == \E message \in UserMessages : ChatMarked("s1", message)

SpecMarked == Init /\ [][NextMarked]_vars

-----------------------------------------------------------------------------
(* The classifier alone: one read of a store whose latest assistant turn   *)
(* is any text made of the phrases the classifier looks for                *)

\* number of phrases a text is assembled from
MaxPhrases == 11

Phrases ==
    << <<"[OK]">>, <<"basariyla", "iptal", "edildi.">>, <<"siparis", "numaranizi">>,
       <<"siparis", "numarasini">>, <<"siparisiniz">>, <<"iptal", "nedenini">>, <<"sebep">>, <<"nedeni">>,
       <<"kargoya", "verildi">>, <<"iptal">>, <<"islemi">>, <<"Siparis">>,
       <<"I~ptal">> >>

PhraseCount == IF MaxPhrases < Len(Phrases) THEN MaxPhrases ELSE Len(Phrases)

\* the chosen phrases, in the order of Phrases
RECURSIVE TextOf(_, _)
TextOf(chosen, k) ==
    IF k > PhraseCount THEN <<>>
    ELSE (IF k \in chosen THEN Phrases[k] ELSE <<>>) \o TextOf(chosen, k + 1)

AssistantTexts == {TextOf(chosen, 1) : chosen \in SUBSET (1..PhraseCount)}

\* what the session holds before its latest assistant turn
EarlierTurns ==
    { <<>>,
      OfferedSession,
      OfferedSession
        \o << [session_id |-> "s1", role |-> "user", content |-> MsgOrderAndReason],
              [session_id |-> "s1", role |-> "assistant",
               content |-> SuccessHead \o <<"ORD-8841">> \o SuccessMid \o <<"hasarli">>] >> }

InitClassifier ==
    /\ chat_sessions = {"s1", "s2"}
    /\ \E earlier \in EarlierTurns, txt \in AssistantTexts :
         chat_messages =
            OtherSession \o earlier
            \o << [session_id |-> "s1", role |-> "user", content |-> MsgGreeting],
                  [session_id |-> "s1", role |-> "assistant", content |-> txt] >>
    /\ chat_actions = <<>>
    /\ order_api_log = <<>>
    /\ handled = 0
    /\ last = NoRequest
    /\ classified = <<>>
    /\ requests = <<>>

Classify ==
    /\ classified = <<>>
    /\ classified' = <<assistant_recently_asked_for_details(chat_messages, "s1")>>
    /\ UNCHANGED <<chat_sessions, chat_messages, chat_actions, order_api_log, handled, last,
                   requests>>

SpecClassifier == InitClassifier /\ [][Classify]_vars

-----------------------------------------------------------------------------
(* What a state shows of the request handled last *)

Handled == last.branch # "none"

\* the store as the last request saw it at its branch tests: the rows written
\* before it and its own user turn
PreHistory == SubSeq(chat_messages, 1, last.rows_before + 1)

\* the rows the last request wrote after its user turn
Written == SubSeq(chat_messages, last.rows_before + 2, Len(chat_messages))

LastCurrent == extract_order_and_reason(last.message)

LastContext == get_session_context_for_order(PreHistory, last.session_id)

\* order number of the current message, else the one found in history
LastFinalOrder ==
    IF Truthy(LastCurrent.order_number)
    THEN LastCurrent.order_number ELSE LastContext.order_number

LastAwaiting == assistant_recently_asked_for_details(PreHistory, last.session_id)

\* the payload of the call the last request made to the cancellation service
LastSent == order_api_log[Len(order_api_log)]

LastAction == chat_actions[Len(chat_actions)]

-----------------------------------------------------------------------------
(* Claims *)

\* C1: a request calls the cancellation service if and only if the classifier
\* says awaiting-details, final_order is present, the reason of the current
\* message is present and that reason is not purely numeric; a request that
\* takes this branch returns the invoker's result and does no retrieval and
\* no generation.
C1_ExecuteIff ==
    Handled =>
        /\ \A current \in {LastCurrent} :
             last.api_calls = 1
               <=> /\ LastAwaiting
                   /\ Truthy(LastFinalOrder)
                   /\ Truthy(current.reason)
                   /\ ~Numeric(current.reason[1])
        /\ last.api_calls \in {0, 1}
        /\ last.api_calls = 1 =>
             /\ last.branch = "execute"
             /\ last.response.answer = LastAction.result
             /\ last.response.sources = <<>>
             /\ Len(last.response.tool_calls) = 1
             /\ last.search_calls = 0
             /\ last.gen_calls = 0

\* C1 witness: an awaiting session, an order number and a numeric reason in
\* the message ("sebep: 12345"), and the service was not called
C1_Witness ==
    /\ Handled
    /\ LastAwaiting
    /\ Truthy(LastFinalOrder)
    /\ Truthy(LastCurrent.reason)
    /\ Numeric(LastCurrent.reason[1])
    /\ last.api_calls = 0

\* C2: the reason of every cancellation call, and of its ActionRecord, is the
\* reason extracted from the message of that request; a request whose message
\* carries no reason calls nothing, whatever the history holds.
C2_ReasonFromCurrentMessage ==
    Handled =>
        /\ last.api_calls = 1 =>
             /\ Truthy(ExtractReason(last.message))
             /\ LastSent.reason = ExtractReason(last.message)[1]
             /\ LastAction.args.reason = ExtractReason(last.message)[1]
        /\ ~Truthy(ExtractReason(last.message)) => last.api_calls = 0

\* C2 witness: the session is awaiting, an order number is known, the message
\* has no reason while an earlier user turn has a valid one, and nothing was
\* called
C2_Witness ==
    /\ Handled
    /\ LastAwaiting
    /\ Truthy(LastFinalOrder)
    /\ ~Truthy(LastCurrent.reason)
    /\ Truthy(LastContext.reason)
    /\ last.api_calls = 0


\* the last request was the first of its session: no assistant turn yet
LastFresh == RowsOf(PreHistory, last.session_id, "assistant") = <<>>

\* the message of the last request carries an order code and a reason
LastHasBoth ==
    /\ Truthy(LastCurrent.order_number)
    /\ Truthy(LastCurrent.reason)
    /\ ~Numeric(LastCurrent.reason[1])

LastCancelled(order_number, reason) ==
    /\ last.api_calls = 1
    /\ LastSent = [order_number |-> order_number, reason |-> reason]
    /\ LastAction.session_id = last.session_id
    /\ LastAction.action_name = "cancel_order"
    /\ LastAction.args = [order_number |-> order_number, reason |-> reason]
    /\ last.response.tool_calls[1].response_status = <<204>> =>
         last.response.answer =
            <<"[OK]", "Siparis">> \o order_number
            \o <<"basariyla", "iptal", "edildi.", "Sebep:">> \o reason

FallbackBranches == {"db_error", "no_data", "generated", "raised"}

\* C3 as stated: in a fresh session a first message with an order code and a
\* reason keyword executes the cancellation with exactly these two values.
C3_FreshSessionExecutes ==
    (Handled /\ LastFresh /\ LastHasBoth) =>
        LastCancelled(LastCurrent.order_number[1], LastCurrent.reason[1])

\* C3 amended: a message with an order code and a reason executes the
\* cancellation with exactly these two values, and persists the ActionRecord
\* with them, when the latest assistant turn asked for details; in a fresh
\* session it executes nothing and the request goes to the retrieval fallback.
C3_ExecutesOnlyWhenAsked ==
    (Handled /\ LastHasBoth) =>
        /\ LastFresh =>
             /\ last.api_calls = 0
             /\ last.branch \in FallbackBranches
             /\ \A i \in DOMAIN Written : Written[i].role = "assistant"
        /\ LastAwaiting =>
             LastCancelled(LastCurrent.order_number[1], LastCurrent.reason[1])
        /\ ~LastAwaiting => last.api_calls = 0

\* C3 witness: the first message of a fresh session is "ORD-8841 hasarli" and
\* nothing was cancelled
C3_Witness ==
    /\ Handled
    /\ LastFresh
    /\ last.message = <<"ORD-8841", "hasarli">>
    /\ last.api_calls = 0
    /\ chat_actions = <<>>

\* positions in PreHistory of the user turns of the last request's session
LastUserRows ==
    {i \in DOMAIN PreHistory :
        PreHistory[i].session_id = last.session_id /\ PreHistory[i].role = "user"}

MaxOf(S) == CHOOSE x \in S : \A y \in S : y <= x

\* position of the user turn before the current one
PrevUserRow == MaxOf(LastUserRows \ {last.rows_before + 1})

\* the session was awaiting details when an order-only message arrived, and
\* the next message, the current one, has a non-numeric reason and no order
LastIsSecondOfTwoTurns ==
    /\ Handled
    /\ Cardinality(LastUserRows) >= 2
    /\ assistant_recently_asked_for_details(SubSeq(PreHistory, 1, PrevUserRow),
                                            last.session_id)
    /\ Truthy(ExtractOrder(PreHistory[PrevUserRow].content))
    /\ ~Truthy(ExtractReason(PreHistory[PrevUserRow].content))
    /\ ~Truthy(LastCurrent.order_number)
    /\ Truthy(LastCurrent.reason)
    /\ ~Numeric(LastCurrent.reason[1])

\* C4: two-turn slot filling: after an order-only message in awaiting-details,
\* a reason-only message executes the cancellation with the order number of
\* the earlier turn and the reason of the current message, and asks nothing.
C4_TwoTurnSlotFilling ==
    LastIsSecondOfTwoTurns =>
        /\ last.branch = "execute"
        /\ LastCancelled(ExtractOrder(PreHistory[PrevUserRow].content)[1],
                         LastCurrent.reason[1])

\* C4 witness: "12345", then "fikrim degisti", and the call was made
C4_Witness ==
    /\ LastIsSecondOfTwoTurns
    /\ PreHistory[PrevUserRow].content = <<"12345">>
    /\ last.message = <<"fikrim", "degisti">>
    /\ last.api_calls = 1

\* C5: in awaiting-details, when the service was not called and final_order
\* or the current reason is absent, the answer is the clarification question
\* naming exactly the absent pieces.
C5_ClarifyNamesMissing ==
    (/\ Handled
     /\ LastAwaiting
     /\ last.api_calls = 0
     /\ ~Truthy(LastFinalOrder) \/ ~Truthy(LastCurrent.reason)) =>
        /\ last.branch = "clarify"
        /\ last.response.answer =
             <<"I~ptal", "islemi", "icin">>
             \o (IF ~Truthy(LastFinalOrder) /\ ~Truthy(LastCurrent.reason)
                 THEN <<"siparis", "numarasi", "ve", "sebep">>
                 ELSE IF ~Truthy(LastFinalOrder)
                 THEN <<"siparis", "numarasi">>
                 ELSE <<"sebep">>)
             \o <<"bilgisini", "paylasir", "misiniz?">>
        /\ Written = <<[session_id |-> last.session_id, role |-> "assistant",
                        content |-> last.response.answer]>>

\* C5 witness: a bare number answers an ask-for-details prompt while an older
\* user turn holds a reason, and the question asks for the reason only
C5_Witness ==
    /\ Handled
    /\ LastAwaiting
    /\ last.message = <<"12345">>
    /\ Truthy(LastContext.reason)
    /\ last.response.answer =
         <<"I~ptal", "islemi", "icin", "sebep", "bilgisini", "paylasir", "misiniz?">>

\* the latest assistant turn the last request saw is a success message
LastAfterSuccess ==
    LET rows == RowsOf(PreHistory, last.session_id, "assistant")
    IN  /\ rows # <<>>
        /\ SubSeq(rows[Len(rows)].content, 1, 2) = <<"[OK]", "Siparis">>

\* C6: a request whose latest assistant turn is a successful-cancellation
\* message takes neither the execute nor the clarify branch, whatever its
\* message: it goes to the retrieval fallback and calls nothing.
C6_NoLoopAfterSuccess ==
    (Handled /\ LastAfterSuccess) =>
        /\ last.branch \in FallbackBranches
        /\ last.api_calls = 0

\* C6 witness: after a success message the user sends an order code and a
\* reason again
C6_Witness ==
    /\ Handled
    /\ LastAfterSuccess
    /\ LastHasBoth
    /\ last.branch \in FallbackBranches


GreetingReasons ==
    { <<"merhaba">>, <<"selam">>, <<"hello">>, <<"hi">>, <<"iyi", "gunler">>,
      <<"gunaydin">> }

\* C7: no request calls the cancellation service with a reason that is a
\* greeting word.
C7_NoGreetingReason ==
    \A i \in DOMAIN order_api_log : order_api_log[i].reason \notin GreetingReasons

\* C8: there is one ActionRecord per call of the cancellation service, with
\* the arguments and the result of that call, whatever the outcome of the
\* call; a request makes at most one call, and a request that takes the
\* clarify or the retrieval branch makes none and records nothing.
C8_ActionIffInvoked ==
    /\ Len(chat_actions) = Len(order_api_log)
    /\ \A i \in DOMAIN chat_actions :
          /\ chat_actions[i].action_name = "cancel_order"
          /\ chat_actions[i].session_id = "s1"
          /\ chat_actions[i].args = order_api_log[i]
    /\ Handled =>
          /\ last.api_calls \in {0, 1}
          /\ last.api_calls = 1 <=> last.branch = "execute"
          /\ last.api_calls = 1 =>
                /\ LastAction.result = last.response.answer
                /\ LastAction.args = last.response.tool_calls[1].request_data

\* C8 witness: a call failed at transport level and its record is written
C8_Witness ==
    /\ Handled
    /\ last.api_calls = 1
    /\ last.response.tool_calls[1].error # <<>>
    /\ Len(chat_actions) = Len(order_api_log)
    /\ SubSeq(LastAction.result, 1, 4) = <<"[X]", "Siparis", "iptalinde", "hata:">>

HasSuccessMarker(content) ==
    \/ Contains(LowerText(content), <<"[OK]">>)
    \/ Contains(LowerText(content), <<"basariyla", "iptal", "edildi">>)

\* C9: the classifier is false for a session without an assistant turn and
\* false when the most recent assistant turn has a success marker; it reads
\* the most recent assistant turn only.
C9_ClassifierFalseOnSuccess ==
    \A s \in Sessions :
        \A rows \in {RowsOf(chat_messages, s, "assistant")} :
            \A asked \in {assistant_recently_asked_for_details(chat_messages, s)} :
                /\ rows = <<>> => ~asked
                /\ rows # <<>> =>
                     /\ HasSuccessMarker(rows[Len(rows)].content) => ~asked
                     /\ asked = assistant_recently_asked_for_details(
                                    <<rows[Len(rows)]>>, s)

\* C9 witness: the latest assistant turn is a success message that also has
\* the words of a request for details, an earlier assistant turn asked for
\* details, and the classifier says false
C9_Witness ==
    LET rows == RowsOf(chat_messages, "s1", "assistant")
    IN  /\ Len(rows) >= 2
        /\ HasSuccessMarker(rows[Len(rows)].content)
        /\ Contains(LowerText(rows[Len(rows)].content), <<"siparis">>)
        /\ Contains(LowerText(rows[Len(rows)].content), <<"iptal">>)
        /\ assistant_recently_asked_for_details(<<rows[1]>>, "s1")
        /\ ~assistant_recently_asked_for_details(chat_messages, "s1")

\* the text the classifier read
ClassifiedText ==
    LET rows == RowsOf(chat_messages, "s1", "assistant")
    IN  LowerText(rows[Len(rows)].content)

HasOrderPhrase(txt) ==
    \/ Contains(txt, <<"siparis", "numaraniz">>)
    \/ Contains(txt, <<"siparis", "numarasini">>)
    \/ Contains(txt, <<"siparis">>)

HasReasonPhrase(txt) ==
    \/ Contains(txt, <<"iptal", "nedenini">>)
    \/ Contains(txt, <<"sebep">>)
    \/ Contains(txt, <<"nedeni">>)

HasProcessPhrase(txt) ==
    \/ Contains(txt, <<"iptal", "islemi">>)
    \/ Contains(txt, <<"islemi">>)
    \/ Contains(txt, <<"iptal">>)

-----------------------------------------------------------------------------
\* the text asks for the order number: "siparis numaraniz" / "siparis numarasini"
HasOrderRequest(txt) ==
    \/ Contains(txt, <<"siparis", "numaraniz">>)
    \/ Contains(txt, <<"siparis", "numarasini">>)

\* the text asks for the reason: "iptal nedenini" / "sebep"
HasReasonRequest(txt) ==
    \/ Contains(txt, <<"iptal", "nedenini">>)
    \/ Contains(txt, <<"sebep">>)

-----------------------------------------------------------------------------
\* the last request returned a response to its caller
Completed == last.response.status = 200

\* user, assistant, user, assistant, ...
Alternates(history) ==
    \A i \in 1..Len(history) :
        history[i].role = IF i % 2 = 1 THEN "user" ELSE "assistant"

\* every request of the session so far has completed: each user turn has
\* got its assistant turn
AllCompleted(session_id) ==
    Len(RowsOf(chat_messages, session_id, "user"))
        = Len(RowsOf(chat_messages, session_id, "assistant"))

\* C12: a request appends its message as a user turn first, in every branch
\* (the branch tests read the store that holds it); a request that completes
\* appends after it exactly one assistant turn, whose content is the answer
\* returned; a request that does not complete appends no assistant turn.
\* When all requests of a session have completed, its history alternates
\* user, assistant, user, assistant.
C12_UserThenAssistantTurn ==
    /\ Handled =>
          /\ Len(chat_messages) > last.rows_before
          /\ chat_messages[last.rows_before + 1]
                = [session_id |-> last.session_id, role |-> "user",
                   content |-> last.message]
          /\ last.branch \in {"execute", "clarify"} \cup FallbackBranches
          /\ last.branch = "execute" <=> LastAwaiting /\ last.api_calls = 1
          /\ Completed <=> last.branch # "raised"
          /\ Completed =>
                Written = << [session_id |-> last.session_id, role |-> "assistant",
                              content |-> last.response.answer] >>
          /\ ~Completed => Written = <<>>
    /\ \A sid \in Sessions :
          AllCompleted(sid) => Alternates(get_session_history(chat_messages, sid))

\* C12 witness: a new session after two completed requests of different
\* branches (a generated answer with the offer, then a clarification): four
\* turns, alternating
C12_Witness ==
    /\ handled = 2
    /\ Completed
    /\ last.branch = "clarify"
    /\ Len(get_session_history(chat_messages, "s1")) = 4
    /\ Alternates(get_session_history(chat_messages, "s1"))
    /\ get_session_history(chat_messages, "s1")[1].content = MsgCancelIntent
    /\ get_session_history(chat_messages, "s1")[4].content = last.response.answer

-----------------------------------------------------------------------------
\* the last request went to the retrieval fallback
LastFallback == Handled /\ last.search_calls = 1

\* the retrieval engine was unreachable or gave no usable passage text
LastNoPassages ==
    LastFallback /\ (last.env.search.raised \/ DocsText(last.env.search.results) = <<>>)

UnavailableMsg == IF last.env.search.raised THEN DbErrorMsg ELSE NoDataMsg

-----------------------------------------------------------------------------
\* the audit record returned with the last answer
LastToolInfo == last.response.tool_calls[1]

\* C14: call_order_api never raises; for every outcome of the external call
\* it returns a result text and an audit record.  The result is the success
\* message, with the order number and the reason, if and only if the status
\* is 204; another status gives the failure message with status and body; a
\* transport exception gives the error message with the exception text.
\* The audit record always has endpoint, method and request payload, has
\* the response status exactly when a response was received and the error
\* exactly when an exception occurred.
C14_InvokerTotal ==
    (Handled /\ last.api_calls = 1) =>
        LET api == last.env.api
            ok == ~api.raised /\ api.status_code = NoContent
        IN  /\ Completed
            /\ Len(last.response.tool_calls) = 1
            /\ ContainsAny(last.response.answer, <<<<"[OK]">>>>) <=> ok
            /\ ok => last.response.answer
                        = SuccessHead \o LastSent.order_number
                          \o SuccessMid \o LastSent.reason
            /\ (~api.raised /\ ~ok) =>
                  last.response.answer
                     = FailHead \o <<StatusWord(api.status_code)>> \o FailMid \o api.text
            /\ api.raised => last.response.answer = ErrorHead \o api.error
            /\ LastToolInfo.endpoint = "ORDER_API_URL/cancel"
            /\ LastToolInfo.method = "POST"
            /\ LastToolInfo.request_data = LastSent
            /\ LastToolInfo.response_status
                  = (IF api.raised THEN None ELSE Some(api.status_code))
            /\ LastToolInfo.error = (IF api.raised THEN Some(api.error) ELSE None)
            /\ LastAction.result = last.response.answer

\* C14 witness: the service answered 200, which is not 204: the failure
\* message and an audit record with status 200 and no error
C14_Witness ==
    /\ Handled
    /\ last.api_calls = 1
    /\ ~last.env.api.raised
    /\ last.env.api.status_code = 200
    /\ last.response.answer[1] = "[X]"
    /\ LastToolInfo.response_status = Some(200)
    /\ LastToolInfo.error = None

-----------------------------------------------------------------------------
\* a collaborator called by the last request failed
LastApiFailed ==
    /\ last.api_calls = 1
    /\ last.env.api.raised \/ last.env.api.status_code # NoContent

LastSearchFailed == last.search_calls = 1 /\ last.env.search.raised

LastGenFailed == last.gen_calls = 1 /\ last.env.gen.raised

\* C15: when the cancellation service, the retrieval engine or the
\* generation engine fails during a request, the request still ends with a
\* normal response whose answer is a message, stored as the assistant turn;
\* no failure of the three reaches the caller as a server error.
C15_NoRawServerError ==
    (Handled /\ (LastApiFailed \/ LastSearchFailed \/ LastGenFailed)) =>
        /\ last.response.status = 200
        /\ last.response.answer # <<>>
        /\ Written = << [session_id |-> last.session_id, role |-> "assistant",
                         content |-> last.response.answer] >>

-----------------------------------------------------------------------------
(* chat_endpoint statement by statement: one request in flight per         *)
(* session, the requests of different sessions interleaved.  A step is one *)
(* statement on the database or one call of a collaborator.                *)

\* the ActionRecords of a session
ActionsOf(actions, session_id) ==
    SelectSeq(actions, LAMBDA r : r.session_id = session_id)

\* the messages a client sends in the interleaved runs
StepMessages == {MsgBareNumber, MsgOrderAndReason, MsgCancelIntent}

\* the store at the start: s1 has been offered the cancellation, s2 has got
\* a plain answer; the rows of the two sessions are interleaved
InterleavedStore ==
    << [session_id |-> "s1", role |-> "user", content |-> MsgCancelIntent],
       [session_id |-> "s2", role |-> "user", content |-> MsgGreeting],
       [session_id |-> "s1", role |-> "assistant",
        content |-> GenAskReason \o Newlines \o OfferSentence],
       [session_id |-> "s2", role |-> "assistant", content |-> GenShipping] >>

\* the session of the request that handler h runs: a handler is named after
\* its session, but for the second handler of session s1
SessionOf(h) == IF h \in Sessions THEN h ELSE "s1"

\* the assistant turns of the session in the store
AssistantTurns(session_id) == Len(RowsOf(chat_messages, session_id, "assistant"))

\* the locals of a request that has just been received
NewRequest(session_id, message, pc) ==
    [pc |-> pc, message |-> message,
     before_messages |-> get_session_history(chat_messages, session_id),
     before_actions |-> ActionsOf(chat_actions, session_id),
     order_number |-> None, answer |-> <<>>, sources |-> <<>>,
     tool_calls |-> <<>>, status |-> 0, branch |-> "none",
     api |-> NotCalled, search |-> NotCalled, gen |-> NotCalled,
     failed_at |-> "none",
     awaiting_execute |-> None, turns_execute |-> 0,
     awaiting_clarify |-> None, turns_clarify |-> 0]

InitSteps ==
    /\ chat_sessions = Sessions
    /\ chat_messages = InterleavedStore
    /\ chat_actions = <<>>
    /\ order_api_log = <<>>
    /\ handled = 0
    /\ last = NoRequest
    /\ classified = <<>>
    /\ requests = [s \in Sessions |-> NewRequest(s, <<>>, "idle")]

\* the request of session s moves on with the locals ch changed
Goto(s, pc, ch) ==
    requests' = [requests EXCEPT ![s] =
                    [f \in DOMAIN requests[s] |->
                        IF f = "pc" THEN pc
                        ELSE IF f \in DOMAIN ch THEN ch[f] ELSE requests[s][f]]]

NoChange == [pc |-> "unused"]

\* POST /chat arrives
Receive(s, message) ==
    /\ requests[s].pc \in {"idle", "done"}
    /\ handled < MaxRequests
    /\ handled' = handled + 1
    /\ requests' = [requests EXCEPT ![s] = NewRequest(SessionOf(s), message, "save_user")]
    /\ UNCHANGED <<chat_sessions, chat_messages, chat_actions, order_api_log, last,
                   classified>>

\* ensure_session; save_message(user)
SaveUser(s) ==
    /\ requests[s].pc = "save_user"
    /\ chat_sessions' = ensure_session(chat_sessions, SessionOf(s))
    /\ chat_messages' = save_message(chat_messages, SessionOf(s), "user", requests[s].message)
    /\ Goto(s, "context", NoChange)
    /\ UNCHANGED <<chat_actions, order_api_log, handled, last, classified>>

\* extract_order_and_reason; get_session_context_for_order
ReadContext(s) ==
    /\ requests[s].pc = "context"
    /\ Goto(s, "classify",
            [order_number |->
                BackfilledOrder(extract_order_and_reason(requests[s].message),
                                get_session_context_for_order(chat_messages, SessionOf(s)))])
    /\ UNCHANGED <<chat_sessions, chat_messages, chat_actions, order_api_log, handled,
                   last, classified>>

\* the execute test: the classifier is read from the store
ReadClassifier(s) ==
    /\ requests[s].pc = "classify"
    /\ LET current == extract_order_and_reason(requests[s].message)
           final_order == FinalOrder(current.order_number, requests[s].order_number)
           awaiting == assistant_recently_asked_for_details(chat_messages, SessionOf(s))
           seen == [awaiting_execute |-> Some(awaiting),
                    turns_execute |-> AssistantTurns(SessionOf(s))]
       IN  IF ExecuteBranch(awaiting, final_order, current.reason)
           THEN Goto(s, "invoke", seen @@ [branch |-> "execute"])
           ELSE Goto(s, "classify_again", seen)
    /\ UNCHANGED <<chat_sessions, chat_messages, chat_actions, order_api_log, handled,
                   last, classified>>

\* ReadClassifierAgain that takes the value the execute test has read
ReadClassifierOnce(s) ==
    /\ requests[s].pc = "classify_again"
    /\ LET current == extract_order_and_reason(requests[s].message)
           final_order == FinalOrder(current.order_number, requests[s].order_number)
           missing == Missing(final_order, current.reason)
           awaiting == requests[s].awaiting_execute[1]
           seen == [awaiting_clarify |-> Some(awaiting),
                    turns_clarify |-> AssistantTurns(SessionOf(s))]
       IN  IF awaiting /\ missing # <<>>
           THEN Goto(s, "save_assistant",
                     seen @@ [branch |-> "clarify", answer |-> ClarifyAnswer(missing)])
           ELSE Goto(s, "retrieve", seen)
    /\ UNCHANGED <<chat_sessions, chat_messages, chat_actions, order_api_log, handled,
                   last, classified>>

\* the clarify test: the classifier is read again
ReadClassifierAgain(s) ==
    /\ requests[s].pc = "classify_again"
    /\ LET current == extract_order_and_reason(requests[s].message)
           final_order == FinalOrder(current.order_number, requests[s].order_number)
           missing == Missing(final_order, current.reason)
           awaiting == assistant_recently_asked_for_details(chat_messages, SessionOf(s))
           seen == [awaiting_clarify |-> Some(awaiting),
                    turns_clarify |-> AssistantTurns(SessionOf(s))]
       IN  IF awaiting /\ missing # <<>>
           THEN Goto(s, "save_assistant",
                     seen @@ [branch |-> "clarify", answer |-> ClarifyAnswer(missing)])
           ELSE Goto(s, "retrieve", seen)
    /\ UNCHANGED <<chat_sessions, chat_messages, chat_actions, order_api_log, handled,
                   last, classified>>

\* call_order_api
Invoke(s, api) ==
    /\ requests[s].pc = "invoke"
    /\ LET current == extract_order_and_reason(requests[s].message)
           final_order == FinalOrder(current.order_number, requests[s].order_number)
           r == call_order_api(final_order[1], current.reason[1], api)
       IN  /\ order_api_log' = Append(order_api_log, r.tool_info.request_data)
           /\ Goto(s, "save_action",
                   [api |-> api, answer |-> r.result, tool_calls |-> <<r.tool_info>>])
    /\ UNCHANGED <<chat_sessions, chat_messages, chat_actions, handled, last, classified>>

\* save_action
SaveAction(s) ==
    /\ requests[s].pc = "save_action"
    /\ chat_actions' = save_action(chat_actions, SessionOf(s), "cancel_order",
                                   requests[s].tool_calls[1].request_data,
                                   requests[s].answer)
    /\ Goto(s, "save_assistant", NoChange)
    /\ UNCHANGED <<chat_sessions, chat_messages, order_api_log, handled, last, classified>>

\* get_session_history; similarity_search
Retrieve(s, search) ==
    /\ requests[s].pc = "retrieve"
    /\ IF search.raised
       THEN Goto(s, "save_assistant",
                 [search |-> search, branch |-> "db_error", answer |-> DbErrorMsg])
       ELSE IF DocsText(search.results) = <<>>
       THEN Goto(s, "save_assistant",
                 [search |-> search, branch |-> "no_data", answer |-> NoDataMsg])
       ELSE Goto(s, "generate", [search |-> search, sources |-> Sources(search.results)])
    /\ UNCHANGED <<chat_sessions, chat_messages, chat_actions, order_api_log, handled,
                   last, classified>>

\* chat_model.invoke; the proactive offer
Generate(s, gen) ==
    /\ requests[s].pc = "generate"
    /\ IF gen.raised
       THEN Goto(s, "done", [gen |-> gen, branch |-> "raised", status |-> 500,
                             sources |-> <<>>, failed_at |-> "generate"])
       ELSE Goto(s, "save_assistant",
                 [gen |-> gen, branch |-> "generated",
                  answer |-> gen.content
                             \o (IF CancelIntent(requests[s].message)
                                 THEN Newlines \o OfferSentence ELSE <<>>)])
    /\ UNCHANGED <<chat_sessions, chat_messages, chat_actions, order_api_log, handled,
                   last, classified>>

\* save_message(assistant); return ChatResponse
SaveAssistant(s) ==
    /\ requests[s].pc = "save_assistant"
    /\ chat_messages' = save_message(chat_messages, SessionOf(s), "assistant", requests[s].answer)
    /\ Goto(s, "done", [status |-> 200])
    /\ UNCHANGED <<chat_sessions, chat_actions, order_api_log, handled, last, classified>>

\* the outcomes of the retrieval and of the generation in the step-wise
\* specifications: the search raises or returns a usable passage, the
\* generation raises or returns one of two texts
StepSearchOutcomes == {x \in SearchOutcomes : x.raised \/ DocsText(x.results) # <<>>}

StepGenOutcomes == {g \in GenOutcomes : g.raised \/ g.content \in {GenShipping, GenAskReason}}

\* one statement of the request of session s
StepOf(s) ==
    \/ \E message \in StepMessages : Receive(s, message)
    \/ SaveUser(s)
    \/ ReadContext(s)
    \/ ReadClassifier(s)
    \/ ReadClassifierAgain(s)
    \/ \E api \in ApiOutcomes : Invoke(s, api)
    \/ SaveAction(s)
    \/ \E search \in StepSearchOutcomes : Retrieve(s, search)
    \/ \E gen \in StepGenOutcomes : Generate(s, gen)
    \/ SaveAssistant(s)

NextSteps == \E s \in Sessions : StepOf(s)

SpecSteps == InitSteps /\ [][NextSteps]_vars

\* the statements of chat_endpoint on the database that are in no try block
DbStatements ==
    {"save_user", "context", "classify", "classify_again", "save_action",
     "retrieve", "save_assistant"}

\* the store without the rows of session_id after its first n rows
RECURSIVE KeepFirst(_, _, _)
KeepFirst(rows, session_id, n) ==
    IF rows = <<>> THEN <<>>
    ELSE IF Head(rows).session_id # session_id
    THEN <<Head(rows)>> \o KeepFirst(Tail(rows), session_id, n)
    ELSE IF n > 0
    THEN <<Head(rows)>> \o KeepFirst(Tail(rows), session_id, n - 1)
    ELSE KeepFirst(Tail(rows), session_id, 0)

\* Fail with the statements of a request in one transaction: the failure
\* rolls back what the request has written
FailWithRollback(s) ==
    /\ requests[s].pc \in DbStatements
    /\ chat_messages' = KeepFirst(chat_messages, SessionOf(s), Len(requests[s].before_messages))
    /\ chat_actions' = KeepFirst(chat_actions, SessionOf(s), Len(requests[s].before_actions))
    /\ Goto(s, "done", [status |-> 500, failed_at |-> requests[s].pc])
    /\ UNCHANGED <<chat_sessions, order_api_log, handled, last, classified>>

\* a statement on the database raises: the exception leaves chat_endpoint;
\* the connection is in autocommit mode, every earlier statement is committed
Fail(s) ==
    /\ requests[s].pc \in DbStatements
    /\ Goto(s, "done", [status |-> 500, failed_at |-> requests[s].pc])
    /\ UNCHANGED <<chat_sessions, chat_messages, chat_actions, order_api_log, handled,
                   last, classified>>

\* the requests of one session, any statement of which may fail
NextPartial == StepOf("s1") \/ Fail("s1")

SpecPartial == InitSteps /\ [][NextPartial]_vars

-----------------------------------------------------------------------------
\* the rows a request in flight has written to its session so far
StepUserRow(s) == [session_id |-> s, role |-> "user", content |-> requests[s].message]

\* the outcome the collaborator gave, or any outcome of it when the request
\* did not call it
OutcomeOr(outcome, outcomes) ==
    IF outcome = NotCalled THEN CHOOSE o \in outcomes : TRUE ELSE outcome

\* the request of session s handled in one piece on a store that holds the
\* session alone, with the same collaborator outcomes
Alone(s) ==
    chat_endpoint(requests[s].before_messages, requests[s].before_actions,
                  [session_id |-> s, message |-> requests[s].message],
                  OutcomeOr(requests[s].api, ApiOutcomes),
                  OutcomeOr(requests[s].search, SearchOutcomes),
                  OutcomeOr(requests[s].gen, GenOutcomes))

StepResponse(s) ==
    [status |-> requests[s].status, answer |-> requests[s].answer,
     sources |-> requests[s].sources, tool_calls |-> requests[s].tool_calls]

\* C16: with requests of different sessions interleaved statement by
\* statement, the rows and ActionRecords of a session are those found at the
\* start of its request plus the ones its own request wrote; when the
\* request is done its branch, its response and the session's history and
\* ActionRecords are those of the same request handled alone.
C16_SessionIsolation ==
    \A s \in Sessions :
        \E r \in {requests[s]} :
        \E own \in {get_session_history(chat_messages, s)} :
        \E acts \in {ActionsOf(chat_actions, s)} :
            /\ r.pc \in {"idle", "save_user"} =>
                  own = r.before_messages /\ acts = r.before_actions
            /\ r.pc \in {"context", "classify", "classify_again", "invoke",
                          "save_action", "retrieve", "generate", "save_assistant"} =>
                  /\ own = Append(r.before_messages, StepUserRow(s))
                  /\ acts = IF r.pc = "save_assistant" /\ r.branch = "execute"
                             THEN Append(r.before_actions,
                                         [session_id |-> s, action_name |-> "cancel_order",
                                          args |-> r.tool_calls[1].request_data,
                                          result |-> r.answer])
                             ELSE r.before_actions
            /\ r.pc = "done" =>
                  \E alone \in {Alone(s)} :
                      /\ r.branch = alone.branch
                      /\ StepResponse(s) = alone.response
                      /\ own = alone.messages
                      /\ acts = alone.actions

\* C16 witness: both sessions have finished a request whose statements were
\* interleaved (the store ends with the user turn of s2, the user turn of
\* s1, then the two assistant turns), s1 in the execute branch and s2 with
\* a generated answer
C16_Witness ==
    /\ requests["s1"].pc = "done"
    /\ requests["s2"].pc = "done"
    /\ requests["s1"].branch = "execute"
    /\ requests["s2"].branch = "generated"
    /\ Len(chat_messages) = Len(InterleavedStore) + 4
    /\ chat_messages[Len(InterleavedStore) + 1].session_id = "s2"
    /\ chat_messages[Len(InterleavedStore) + 2].session_id = "s1"
    /\ chat_messages[Len(InterleavedStore) + 3].session_id = "s2"
    /\ chat_messages[Len(InterleavedStore) + 4].session_id = "s1"
    /\ Len(ActionsOf(chat_actions, "s1")) = 1
    /\ ActionsOf(chat_actions, "s2") = <<>>

-----------------------------------------------------------------------------
(* The history store with its timestamps: the reads sort by created_at     *)
(* alone, and the order SQL gives to rows of equal created_at is           *)
(* unspecified, so a read returns any of the orders the sort allows.       *)

\* rows in the store
MaxRows == 3

\* what a turn of a role can say
StoreTexts(role) ==
    IF role = "user" THEN {MsgBareNumber, MsgReasonOnly} ELSE {GenAskReason, GenShipping}

\* the created_at the database gives to the next row: the INSERT does not
\* set it; the clock has moved on since the latest row, or it has not
NextTimestamps(messages) ==
    IF messages = <<>> THEN {1}
    ELSE {messages[Len(messages)].created_at, messages[Len(messages)].created_at + 1}

\* INSERT INTO chat_messages (session_id, role, content)
InsertTurn(role, content) ==
    /\ Len(chat_messages) < MaxRows
    /\ \E created_at \in NextTimestamps(chat_messages) :
          chat_messages' = Append(chat_messages,
                                  [session_id |-> "s1", role |-> role,
                                   content |-> content, created_at |-> created_at])
    /\ UNCHANGED <<chat_sessions, chat_actions, order_api_log, handled, last,
                   classified, requests>>

\* the orders of rows that ORDER BY created_at ASC allows
OrderByAsc(rows) ==
    LET n == Len(rows)
        sorted == {p \in [1..n -> 1..n] :
                     /\ \A i, j \in 1..n : i # j => p[i] # p[j]
                     /\ \A i, j \in 1..n :
                           i < j => rows[p[i]].created_at <= rows[p[j]].created_at}
    IN  {[i \in 1..n |-> rows[p[i]]] : p \in sorted}

\* the orders of rows that ORDER BY created_at DESC allows
OrderByDesc(rows) ==
    {[i \in 1..Len(asc) |-> asc[Len(asc) + 1 - i]] : asc \in OrderByAsc(rows)}

\* ... LIMIT n
Limit(rows, n) == IF Len(rows) <= n THEN rows ELSE SubSeq(rows, 1, n)

\* what a SELECT returns of a row
Selected(rows) == [i \in 1..Len(rows) |-> [role |-> rows[i].role, content |-> rows[i].content]]

\* get_session_history: ... ORDER BY created_at ASC
ReadHistory ==
    /\ \E rows \in OrderByAsc(get_session_history(chat_messages, "s1")) :
          last' = [kind |-> "history", rows |-> Selected(rows)]
    /\ UNCHANGED <<chat_sessions, chat_messages, chat_actions, order_api_log, handled,
                   classified, requests>>

\* assistant_recently_asked_for_details: ... ORDER BY created_at DESC LIMIT 1
ReadLatestAssistant ==
    /\ \E rows \in OrderByDesc(RowsOf(chat_messages, "s1", "assistant")) :
          last' = [kind |-> "latest_assistant", rows |-> Selected(Limit(rows, 1))]
    /\ UNCHANGED <<chat_sessions, chat_messages, chat_actions, order_api_log, handled,
                   classified, requests>>

\* get_session_context_for_order: ... ORDER BY created_at DESC LIMIT 10
ReadRecentUsers ==
    /\ \E rows \in OrderByDesc(RowsOf(chat_messages, "s1", "user")) :
          last' = [kind |-> "recent_users", rows |-> Selected(Limit(rows, HistoryLimit))]
    /\ UNCHANGED <<chat_sessions, chat_messages, chat_actions, order_api_log, handled,
                   classified, requests>>

InitStore ==
    /\ chat_sessions = {"s1"}
    /\ chat_messages = <<>>
    /\ chat_actions = <<>>
    /\ order_api_log = <<>>
    /\ handled = 0
    /\ last = [kind |-> "none", rows |-> <<>>]
    /\ classified = <<>>
    /\ requests = <<>>

NextStore ==
    \/ \E role \in {"user", "assistant"} :
          \E content \in StoreTexts(role) : InsertTurn(role, content)
    \/ ReadHistory
    \/ ReadLatestAssistant
    \/ ReadRecentUsers

SpecStore == InitStore /\ [][NextStore]_vars

\* the rows in the order they were written, newest first
Newest(rows) == [i \in 1..Len(rows) |-> rows[Len(rows) + 1 - i]]

\* the read just made returned the rows in their write order
ReadInWriteOrder ==
    /\ last.kind = "history" =>
          last.rows = Selected(get_session_history(chat_messages, "s1"))
    /\ last.kind = "latest_assistant" =>
          last.rows = Selected(Limit(Newest(RowsOf(chat_messages, "s1", "assistant")), 1))
    /\ last.kind = "recent_users" =>
          last.rows = Selected(Limit(Newest(RowsOf(chat_messages, "s1", "user")),
                                     HistoryLimit))

\* no step modifies or removes a written turn
AppendOnly ==
    /\ Len(chat_messages') >= Len(chat_messages)
    /\ SubSeq(chat_messages', 1, Len(chat_messages)) = chat_messages

\* C17: turns are append-only, and every read of a session (the full
\* history, the most recent assistant turn, the most recent 10 user turns)
\* returns the turns in their write order, also when turns of the session
\* have equal creation timestamps.
C17_ReadOrderIsWriteOrder ==
    [][AppendOnly /\ (last' # last => ReadInWriteOrder')]_vars

-----------------------------------------------------------------------------
\* no step removes or changes an ActionRecord
ActionsAppendOnly ==
    /\ Len(chat_actions') >= Len(chat_actions)
    /\ SubSeq(chat_actions', 1, Len(chat_actions)) = chat_actions

\* the request of session s has ended with an exception
Failed(s) == requests[s].pc = "done" /\ requests[s].status = 500

\* the ActionRecord of the request of session s
StepAction(s) ==
    [session_id |-> s, action_name |-> "cancel_order",
     args |-> requests[s].tool_calls[1].request_data, result |-> requests[s].answer]

\* what the failed request of session s wrote before it failed is in the
\* store: its user turn unless that very INSERT failed, its ActionRecord
\* when the failure came after save_action, and all that was there before
FailedKeepsWrites(s) ==
    Failed(s) =>
        /\ get_session_history(chat_messages, s)
              = IF requests[s].failed_at = "save_user"
                THEN requests[s].before_messages
                ELSE Append(requests[s].before_messages, StepUserRow(s))
        /\ ActionsOf(chat_actions, s)
              = IF requests[s].failed_at = "save_assistant" /\ requests[s].branch = "execute"
                THEN Append(requests[s].before_actions, StepAction(s))
                ELSE requests[s].before_actions

\* C18: every write is committed on its own: no step, a failing statement
\* included, removes or changes a turn or an ActionRecord, and after a
\* request has failed at a later step (a statement on the database, or the
\* generation call) what it wrote before, its own user turn included, is in
\* the store, where the next request finds it.
C18_PartialFailureKeepsWrites ==
    [][/\ AppendOnly
       /\ ActionsAppendOnly
       /\ FailedKeepsWrites("s1")'
       /\ (requests["s1"].pc \in {"idle", "done"} /\ requests'["s1"].pc = "save_user") =>
             requests'["s1"].before_messages = get_session_history(chat_messages, "s1")]_vars

\* C18 witness: the request for "12345" failed when it stored its answer;
\* the next request of the session, which names no order, has found the user
\* turn of the failed one and taken the order number from it
C18_Witness ==
    /\ handled = 2
    /\ requests["s1"].pc = "done"
    /\ requests["s1"].status = 200
    /\ requests["s1"].message = MsgCancelIntent
    /\ requests["s1"].before_messages[Len(requests["s1"].before_messages)]
          = [session_id |-> "s1", role |-> "user", content |-> MsgBareNumber]
    /\ requests["s1"].order_number = Some(MsgBareNumber)

-----------------------------------------------------------------------------
(* The entity extractor alone: one call on any message of a few words *)

\* words of a message
MaxWords == 4

\* order codes, digits, reason markers, a reason keyword, plain words, an
\* order-related word and the line break
ExtractWords ==
    {"ORD-8841", "12345", "77", "sebep:", "sebep-hasarli", "hasarli", "urun",
     "order", LineBreak}

\* the messages of n words
RECURSIVE MessagesOf(_)
MessagesOf(n) ==
    IF n = 0 THEN {<<>>}
    ELSE {Append(m, w) : m \in MessagesOf(n - 1), w \in ExtractWords}

ExtractMessages == UNION {MessagesOf(n) : n \in 1..MaxWords}

InitExtract ==
    /\ chat_sessions = {}
    /\ chat_messages = <<>>
    /\ chat_actions = <<>>
    /\ order_api_log = <<>>
    /\ handled = 0
    /\ \E message \in ExtractMessages : last = [message |-> message, extracted |-> <<>>]
    /\ classified = <<>>
    /\ requests = <<>>

Extract ==
    /\ last.extracted = <<>>
    /\ last' = [last EXCEPT !.extracted = <<extract_order_and_reason(last.message)>>]
    /\ UNCHANGED <<chat_sessions, chat_messages, chat_actions, order_api_log, handled,
                   classified, requests>>

SpecExtract == InitExtract /\ [][Extract]_vars

-----------------------------------------------------------------------------
\* the extractor has run on last.message
Extracted == last.extracted # <<>>

\* the words with an order code, and the words with the reason marker
OrderWords == {i \in 1..Len(last.message) : OrderMatch(last.message[i]) # <<>>}

MarkerWords == {i \in 1..Len(last.message) : "sebep" \in Sub(Lower(last.message[i]))}

\* the text after the first marker up to the end of the message, trimmed
AfterMarker ==
    Strip(MarkerRest(last.message[MinOf(MarkerWords)])
          \o SubSeq(last.message, MinOf(MarkerWords) + 1, Len(last.message)))

\* C19: for a message with an order code and the reason marker followed by
\* a phrase, the extractor returns both: the order number is the first
\* match in the message, the reason is exactly the text after the marker up
\* to the end of the message, trimmed, whatever keywords the message has
\* and however short it is.
C19_MarkerReasonToEndOfMessage ==
    (Extracted /\ OrderWords # {} /\ MarkerWords # {} /\ AfterMarker # <<>>) =>
        /\ last.extracted[1].order_number
              = Some(OrderMatch(last.message[MinOf(OrderWords)]))
        /\ last.extracted[1].reason = Some(AfterMarker)

\* the message is digits only
DigitsOnly == Len(last.message) = 1 /\ IsDigits(last.message[1])

\* the reason returned is the whole message: the short-message fallback
FallbackApplied ==
    /\ MarkerWords = {}
    /\ ~ContainsAny(LowerText(last.message), ReasonKeywords)
    /\ last.extracted[1].reason # None

\* C20: for a message of digits only the reason is absent; the
\* short-message fallback (the whole message of at most 3 words becomes the
\* reason) applies only to a message that is not digits only and has none of
\* the order-related words.
C20_NoReasonFromBareNumber ==
    Extracted =>
        /\ DigitsOnly => last.extracted[1].reason = None
        /\ FallbackApplied =>
              /\ last.extracted[1].reason = Some(Strip(last.message))
              /\ Len(Split(last.message)) <= 3
              /\ ~DigitsOnly
              /\ \A i \in 1..Len(last.message) :
                    Sub(Lower(last.message[i]))
                        \cap {"siparis", "numara", "order", "number"} = {}
        /\ (/\ MarkerWords = {}
            /\ ~ContainsAny(LowerText(last.message), ReasonKeywords)
            /\ (\/ Len(Split(last.message)) > 3
                \/ DigitsOnly
                \/ \E i \in 1..Len(last.message) : "order" \in Sub(Lower(last.message[i]))))
              => last.extracted[1].reason = None

\* C20 witness: the extractor ran on "12345" and returned the order number
\* and no reason
C20_Witness ==
    /\ Extracted
    /\ last.message = MsgBareNumber
    /\ last.extracted[1].order_number = Some(MsgBareNumber)
    /\ last.extracted[1].reason = None

-----------------------------------------------------------------------------
\* the assistant turn the last request wrote
LastWritten == Written[Len(Written)].content

\* the last request asked for cancellation details: it wrote one of the
\* clarification questions, or a generated answer with the offer appended
LastAsked ==
    /\ Handled
    /\ \/ last.branch = "clarify"
       \/ last.branch = "generated" /\ CancelIntent(last.message)

\* the three clarification questions
ClarifyQuestions ==
    {ClarifyAnswer(<<AskOrder>>), ClarifyAnswer(<<AskReason>>),
     ClarifyAnswer(<<AskOrder, AskReason>>)}

\* the text ends with the offer sentence
EndsWithOffer(content) ==
    /\ Len(content) >= Len(OfferSentence)
    /\ SubSeq(content, Len(content) - Len(OfferSentence) + 1, Len(content)) = OfferSentence

\* the latest assistant turn the last request saw asked for details
LastSawAsk ==
    LET rows == RowsOf(PreHistory, last.session_id, "assistant")
    IN  /\ Handled
        /\ rows # <<>>
        /\ \/ rows[Len(rows)].content \in ClarifyQuestions
           \/ EndsWithOffer(rows[Len(rows)].content)

LastSawMarker ==
    LET rows == RowsOf(PreHistory, last.session_id, "assistant")
    IN  rows # <<>> /\ HasSuccessMarker(rows[Len(rows)].content)

\* C21 as stated: every turn the resolver writes to ask for cancellation
\* details (a clarification question, or any generated answer that ends with
\* the offer sentence) is classified as awaiting-details, and the next
\* request runs its execute and clarify tests in awaiting-details.
C21_EveryAskIsAwaiting ==
    /\ LastAsked =>
          /\ LastWritten \in ClarifyQuestions \/ EndsWithOffer(LastWritten)
          /\ assistant_recently_asked_for_details(chat_messages, last.session_id)
    /\ LastSawAsk => LastAwaiting

\* C21: the three clarification questions, and every generated answer
\* without a success marker that ends with the offer sentence, are classified
\* as awaiting-details, and the next request runs its execute and clarify
\* tests in awaiting-details; a generated answer with a success marker is
\* classified as not awaiting although the offer was appended to it.
C21_AskWithoutMarkerIsAwaiting ==
    /\ LastAsked =>
          /\ LastWritten \in ClarifyQuestions \/ EndsWithOffer(LastWritten)
          /\ assistant_recently_asked_for_details(chat_messages, last.session_id)
               = ~HasSuccessMarker(LastWritten)
          /\ last.branch = "clarify" => ~HasSuccessMarker(LastWritten)
    /\ LastSawAsk => (LastAwaiting = ~LastSawMarker)

\* C21 witness: the last request saw the clarification question that asks
\* for the reason only, written by the request before it, and ran in
\* awaiting-details
C21_Witness ==
    LET rows == RowsOf(PreHistory, last.session_id, "assistant")
    IN  /\ Handled
        /\ handled = 2
        /\ rows # <<>>
        /\ rows[Len(rows)].content = ClarifyAnswer(<<AskReason>>)
        /\ LastAwaiting
        /\ last.branch \in {"execute", "clarify"}

-----------------------------------------------------------------------------
(* The context aggregator alone: one call on a store whose session has an  *)
(* oldest user turn, then greetings, then its newest user turns            *)

\* greetings between the oldest and the newest turns of the session
MaxFiller == 10

\* turns after the greetings
MaxNewest == 2

ContextMessages ==
    {MsgBareNumber, MsgReasonOnly, MsgOrderAndReason, MsgNumericReason,
     MsgOtherOrder, MsgGreeting}

\* the sequences of at most n messages
RECURSIVE TurnsUpTo(_)
TurnsUpTo(n) ==
    IF n = 0 THEN {<<>>}
    ELSE TurnsUpTo(n - 1)
         \cup {Append(t, m) : t \in {x \in TurnsUpTo(n - 1) : Len(x) = n - 1},
                               m \in ContextMessages}

UserTurns(session_id, contents) ==
    [k \in 1..Len(contents) |->
        [session_id |-> session_id, role |-> "user", content |-> contents[k]]]

\* n greetings
Greetings(n) == [k \in 1..n |-> MsgGreeting]

\* rows the aggregator must not read: an assistant turn of the session and a
\* user turn of another session, both with an order code and a reason
ForeignRows ==
    << [session_id |-> "s1", role |-> "assistant",
        content |-> <<"ORD8841", "iade">>],
       [session_id |-> "s2", role |-> "user", content |-> <<"ORD8841", "iade">>] >>

InitContext ==
    /\ chat_sessions = Sessions
    /\ \E old \in ContextMessages, new \in TurnsUpTo(MaxNewest),
          n \in 0..MaxFiller, foreign \in BOOLEAN :
          chat_messages = UserTurns("s1", <<old>> \o Greetings(n) \o new)
                          \o (IF foreign THEN ForeignRows ELSE <<>>)
    /\ chat_actions = <<>>
    /\ order_api_log = <<>>
    /\ handled = 0
    /\ last = [context |-> <<>>]
    /\ classified = <<>>
    /\ requests = <<>>

GetContext ==
    /\ last.context = <<>>
    /\ last' = [context |-> <<get_session_context_for_order(chat_messages, "s1")>>]
    /\ UNCHANGED <<chat_sessions, chat_messages, chat_actions, order_api_log, handled,
                   classified, requests>>

SpecContext == InitContext /\ [][GetContext]_vars

-----------------------------------------------------------------------------
\* positions in the store of the user turns of session s1, and of the 10
\* newest of them
UserRowsOfS1 ==
    {i \in DOMAIN chat_messages :
        chat_messages[i].session_id = "s1" /\ chat_messages[i].role = "user"}

TenNewest ==
    {i \in UserRowsOfS1 : Cardinality({j \in UserRowsOfS1 : j > i}) < 10}

HasOrderAt(i) == Truthy(ExtractOrder(chat_messages[i].content))

\* the reason of turn i is present, not a number, without greeting or cancel word
HasUsableReasonAt(i) ==
    LET r == ExtractReason(chat_messages[i].content)
    IN  /\ r # None
        /\ r[1] # <<>>
        /\ ~(Len(r[1]) = 1 /\ IsDigits(r[1][1]))
        /\ \A k \in 1..Len(GreetingWords) : ~Contains(LowerText(r[1]), GreetingWords[k])

NewestOf(S) == CHOOSE i \in S : \A j \in S : j <= i

-----------------------------------------------------------------------------
\* the generation engine was called by the last request and returned a text
LastGenerated ==
    /\ Handled
    /\ last.gen_calls = 1
    /\ ~last.env.gen.raised

\* the message of the last request has "iptal" or "iade" (after lower())
LastHasIntentWord ==
    \E i \in 1..Len(last.message) :
        Sub(Lower(last.message[i])) \cap {"iptal", "iade"} # {}

\* the answer is the generated text followed by the offer sentence
OfferAppended ==
    /\ last.env.gen.raised = FALSE
    /\ "content" \in DOMAIN last.env.gen
    /\ last.response.answer = last.env.gen.content \o <<"\\n\\n">> \o OfferSentence

\* C23: the offer sentence is appended to the answer if and only if the
\* generation ran and the message has "iptal" or "iade"; the answer is then
\* the generated text and the offer, and otherwise the generated text alone;
\* the unavailability messages, the clarification questions and the
\* cancellation results never end with the offer.
C23_OfferIffGeneratedAndIntent ==
    Handled =>
        /\ OfferAppended <=> (LastGenerated /\ LastHasIntentWord)
        /\ (LastGenerated /\ ~LastHasIntentWord)
              => last.response.answer = last.env.gen.content
        /\ ~LastGenerated => ~EndsWithOffer(last.response.answer)
        /\ last.response.status = 200 => LastWritten = last.response.answer

\* C23 witnesses: a message with the cancel keyword answered by a generated
\* text with the offer
C23_Witness ==
    /\ LastGenerated
    /\ last.message = MsgCancelIntent
    /\ last.response.answer = GenShipping \o <<"\\n\\n">> \o OfferSentence
    /\ LastWritten = last.response.answer

-----------------------------------------------------------------------------
\* the message of the last request has an order number and a reason that is
\* a number, and the session was awaiting details
LastNumericReason ==
    /\ Handled
    /\ LastAwaiting
    /\ ExtractOrder(last.message) # None
    /\ ExtractReason(last.message) # None
    /\ Len(ExtractReason(last.message)[1]) = 1
    /\ IsDigits(ExtractReason(last.message)[1][1])

\* C24: in awaiting-details a message with an order number and a purely
\* numeric reason calls nothing and asks nothing: the request goes to the
\* retrieval fallback and writes no ActionRecord.
C24_NumericReasonFallsThrough ==
    LastNumericReason =>
        /\ last.api_calls = 0
        /\ Len(chat_actions) = last.actions_before
        /\ last.response.tool_calls = <<>>
        /\ last.branch \in {"db_error", "no_data", "generated", "raised"}
        /\ last.search_calls = 1
        /\ last.response.status = 200 => last.response.answer \notin ClarifyQuestions

\* C24 witness: in awaiting-details "sebep: 12345" was answered by the
\* generation engine, nothing was called and nothing recorded
C24_Witness ==
    /\ LastNumericReason
    /\ last.message = MsgNumericReason
    /\ last.branch = "generated"
    /\ chat_actions = <<>>
    /\ order_api_log = <<>>

-----------------------------------------------------------------------------
\* the text is a number
DigitsOnlyText(t) == Len(t) = 1 /\ IsDigits(t[1])

\* the text is one of the two failure messages of the invoker
IsFailureMessage(content) ==
    \/ (Len(content) >= 5 /\ SubSeq(content, 1, 5)
                                = <<"[X]", "Siparis", "iptal", "edilemedi.", "Status:">>)
    \/ (Len(content) >= 4 /\ SubSeq(content, 1, 4)
                                = <<"[X]", "Siparis", "iptalinde", "hata:">>)

\* the latest assistant turn the last request saw is a failure message
LastAfterFailure ==
    LET rows == RowsOf(PreHistory, last.session_id, "assistant")
    IN  /\ Handled
        /\ rows # <<>>
        /\ IsFailureMessage(rows[Len(rows)].content)

\* the session is awaiting details after the last request
AwaitingNow == assistant_recently_asked_for_details(chat_messages, last.session_id)

\* the text has one of the phrases the classifier asks for
HasAwaitingPhrases(content) ==
    /\ \E i \in 1..Len(content) :
          Sub(Lower(content[i])) \cap {"siparis", "sebep", "nedeni"} # {}
    /\ \E i \in 1..Len(content) :
          Sub(Lower(content[i])) \cap {"islemi", "iptal"} # {}

-----------------------------------------------------------------------------
(* Requests of a session whose order ORD-8841 was cancelled with success   *)

\* session s1 after the offer, "ORD-8841 hasarli" and the success message
CancelledSession ==
    OfferedSession
    \o << [session_id |-> "s1", role |-> "user", content |-> MsgOrderAndReason],
          [session_id |-> "s1", role |-> "assistant",
           content |-> SuccessHead \o <<"ORD-8841">> \o SuccessMid \o <<"hasarli">>] >>

InitCancelled ==
    /\ chat_sessions = Sessions
    /\ chat_messages = OtherSession \o CancelledSession
    /\ chat_actions =
          << [session_id |-> "s1", action_name |-> "cancel_order",
              args |-> [order_number |-> <<"ORD-8841">>, reason |-> <<"hasarli">>],
              result |-> SuccessHead \o <<"ORD-8841">> \o SuccessMid \o <<"hasarli">>] >>
    /\ order_api_log = <<[order_number |-> <<"ORD-8841">>, reason |-> <<"hasarli">>]>>
    /\ handled = 0
    /\ last = NoRequest
    /\ classified = <<>>
    /\ requests = <<>>

SpecCancelled == InitCancelled /\ [][Next]_vars

-----------------------------------------------------------------------------
\* positions in PreHistory of the 10 newest user turns of the session that
\* have an order number
RecentOrderRows ==
    {i \in LastUserRows :
        /\ Cardinality({j \in LastUserRows : j > i}) < 10
        /\ ExtractOrder(PreHistory[i].content) # None}

\* the order number of the newest of them
RecentOrder == ExtractOrder(PreHistory[NewestOf(RecentOrderRows)].content)[1]

\* the order was cancelled with success in this session before the last request
CancelledBefore(order_number) ==
    \E k \in 1..last.actions_before :
        /\ chat_actions[k].session_id = last.session_id
        /\ chat_actions[k].args.order_number = order_number
        /\ chat_actions[k].result[1] = "[OK]"

\* the session is awaiting details again after a successful cancellation,
\* and the message of the last request has a reason and no order number
LastReasonAfterCancel ==
    /\ Handled
    /\ LastAwaiting
    /\ ExtractOrder(last.message) = None
    /\ ExtractReason(last.message) # None
    /\ ~DigitsOnlyText(ExtractReason(last.message)[1])
    /\ RecentOrderRows # {}
    /\ CancelledBefore(RecentOrder)

\* C26: an order number found in the recent user turns is used again after
\* its own successful cancellation: when the session is awaiting details
\* again and the message has a reason and no order number, the request
\* calls the cancellation service for the order number of the newest of the
\* 10 most recent user turns that has one, although that order was already
\* cancelled with success.
C26_CancelledOrderReused ==
    LastReasonAfterCancel =>
        /\ last.branch = "execute"
        /\ last.api_calls = 1
        /\ LastSent = [order_number |-> RecentOrder,
                       reason |-> ExtractReason(last.message)[1]]
        /\ Len(chat_actions) = last.actions_before + 1
        /\ LastAction.args = LastSent

\* C26 witness: ORD-8841 was cancelled, the session asked for details again
\* and "fikrim degisti" made the service cancel ORD-8841 a second time,
\* with success
C26_Witness ==
    /\ LastReasonAfterCancel
    /\ last.message = MsgReasonOnly
    /\ order_api_log = << [order_number |-> <<"ORD-8841">>, reason |-> <<"hasarli">>],
                          [order_number |-> <<"ORD-8841">>,
                           reason |-> <<"fikrim", "degisti">>] >>
    /\ last.response.answer[1] = "[OK]"

-----------------------------------------------------------------------------
(* Two requests of the same session in flight, statement by statement *)

RaceHandlers == {"s1", "s1-second"}

InitRace ==
    /\ chat_sessions \in {{"s2"}, Sessions}
    /\ chat_messages = IF "s1" \in chat_sessions THEN InterleavedStore ELSE OtherSession
    /\ chat_actions = <<>>
    /\ order_api_log = <<>>
    /\ handled = 0
    /\ last = NoRequest
    /\ classified = <<>>
    /\ requests = [h \in RaceHandlers |-> NewRequest("s1", <<>>, "idle")]

\* the collaborators of the racing requests: the cancellation succeeds or
\* fails, the search returns a usable passage, the generation returns a text
RaceApiOutcomes == {a \in ApiOutcomes : ~a.raised /\ a.status_code \in {NoContent, 500}}

RaceSearchOutcomes == {x \in SearchOutcomes : ~x.raised /\ DocsText(x.results) # <<>>}

RaceGenOutcomes == {g \in GenOutcomes : ~g.raised /\ g.content = GenShipping}

\* one statement of the request that handler h runs
RaceStepOf(h) ==
    \/ \E message \in StepMessages : Receive(h, message)
    \/ SaveUser(h)
    \/ ReadContext(h)
    \/ ReadClassifier(h)
    \/ ReadClassifierAgain(h)
    \/ \E api \in RaceApiOutcomes : Invoke(h, api)
    \/ SaveAction(h)
    \/ \E search \in RaceSearchOutcomes : Retrieve(h, search)
    \/ \E gen \in RaceGenOutcomes : Generate(h, gen)
    \/ SaveAssistant(h)

NextRace == \E h \in RaceHandlers : RaceStepOf(h)

SpecRace == InitRace /\ [][NextRace]_vars

-----------------------------------------------------------------------------
\* the request of handler h has taken the clarify branch
Clarifies(h) == requests[h].branch = "clarify"

\* C27 as stated: a request emits a clarification only if the classifier
\* said awaiting-details at its execute test; the two tests of one request
\* see the same classifier value in every interleaving.
C27_ChecksAgree ==
    \A h \in RaceHandlers :
        /\ Clarifies(h) => requests[h].awaiting_execute = <<TRUE>>
        /\ requests[h].awaiting_clarify # <<>> =>
              requests[h].awaiting_clarify = requests[h].awaiting_execute

\* C27: the two tests of one request see the same classifier value whenever
\* no assistant turn of the session was written between them, and a
\* clarification is emitted only if the classifier said awaiting-details at
\* the clarify test, where it is the classifier's value on the store of
\* that moment; when another request of the session writes an assistant turn
\* between the two tests they can differ, because each test reads the
\* classifier from the store.
C27_ChecksAgreeUnlessWrittenBetween ==
    \A h \in RaceHandlers :
        /\ Clarifies(h) => requests[h].awaiting_clarify = <<TRUE>>
        /\ (/\ requests[h].awaiting_clarify # <<>>
            /\ requests[h].turns_clarify = requests[h].turns_execute) =>
              requests[h].awaiting_clarify = requests[h].awaiting_execute
        /\ requests[h].awaiting_clarify # <<>> =>
              /\ requests[h].awaiting_execute # <<>>
              /\ requests[h].turns_clarify >= requests[h].turns_execute
        /\ (/\ requests[h].awaiting_clarify # <<>>
            /\ AssistantTurns("s1") = requests[h].turns_clarify) =>
              requests[h].awaiting_clarify
                 = <<assistant_recently_asked_for_details(chat_messages, "s1")>>

\* C27 witness: a request saw a session not awaiting at its execute test,
\* another request of the session then wrote the offer, and the first
\* request saw awaiting-details at its clarify test and asked for the reason
C27_Witness ==
    \E h \in RaceHandlers :
        /\ requests[h].pc = "done"
        /\ Clarifies(h)
        /\ requests[h].message = MsgBareNumber
        /\ requests[h].awaiting_execute = <<FALSE>>
        /\ requests[h].awaiting_clarify = <<TRUE>>
        /\ requests[h].turns_clarify = requests[h].turns_execute + 1
        /\ requests[h].answer = ClarifyAnswer(<<AskReason>>)

====
